---------------------------- MODULE Spec2Model ----------------------------
(***************************************************************************)
(* Model of the dictionary lookup and resolution engine of the             *)
(* fastapi-web-dictionary application (src/app/service/mdx_service.py and  *)
(* src/app/service/dict_install_service.py).                               *)
(*                                                                         *)
(* Text is a sequence of characters (one-character strings); the redirect  *)
(* marker "@@@LINK=" is a single token of a text.  A byte string is a      *)
(* record [enc, text]: the encoding under which the bytes decode and the   *)
(* text they decode to, so that two different byte strings can decode to   *)
(* the same text.                                                          *)
(***************************************************************************)
EXTENDS Integers, Sequences, FiniteSets, TLC

VARIABLES
    mdx_items,      \* what MDX(mdx_path).items() yields for the installed dictionary
    mdx_exists,     \* whether the dictionary's .mdx file is on disk
    lookup_result,  \* the outcome of the last MdxService.lookup call
    clock,          \* seconds since 2024-01-01 00:00:00 UTC
    disk,           \* the files under DICT_ROOT, in creation order
    dictionaries,   \* the rows of the dictionaries table, in insertion order
    install_result, \* the outcome of the last install_from_zip_bytes call
    asset_result,   \* the outcome of the last get_asset_bytes call
    threads,        \* the worker threads that serve lookup requests
    mdx_cache,      \* the outer lru_cache of _get_mdx_maps_cached, oldest first
    mdx_cache_inner, \* the lru_cache it wraps, oldest first
    builds,         \* per dictionary id, how often the wrapped function ran
    recent_keys,    \* the keys lookup last asked the index for, oldest first
    mdd_cache       \* the lru_cache of _get_mdd_map_cached, oldest first

lookup_vars == <<mdx_items, mdx_exists, lookup_result>>

fs_vars == <<clock, disk, dictionaries, install_result, asset_result>>

mdx_cache_vars == <<threads, mdx_cache, mdx_cache_inner, builds, recent_keys>>

cache_vars == <<mdx_cache_vars, mdd_cache>>

vars == <<lookup_vars, fs_vars, cache_vars>>

--------------------------------------------------------------------------
(* Text helpers: str.strip, str.casefold, decimal formatting.              *)

LINK == "@@@LINK="

Whitespace == {" ", "\n", "\r", "\t"}

RECURSIVE LStrip(_)
LStrip(s) ==
    IF s # <<>> /\ Head(s) \in Whitespace THEN LStrip(Tail(s)) ELSE s

RECURSIVE RStrip(_)
RStrip(s) ==
    IF s # <<>> /\ s[Len(s)] \in Whitespace
    THEN RStrip(SubSeq(s, 1, Len(s) - 1))
    ELSE s

Strip(s) == RStrip(LStrip(s))

\* str.casefold of one character: upper case letters fold to lower case,
\* the sharp s folds to two characters, everything else is unchanged.
CaseFoldChar(c) ==
    CASE c = "A" -> <<"a">>
      [] c = "B" -> <<"b">>
      [] c = "H" -> <<"h">>
      [] c = "sharp-s" -> <<"s", "s">>
      [] OTHER -> <<c>>

RECURSIVE CaseFold(_)
CaseFold(s) ==
    IF s = <<>> THEN <<>> ELSE CaseFoldChar(Head(s)) \o CaseFold(Tail(s))

DigitChar == <<"0", "1", "2", "3", "4", "5", "6", "7", "8", "9">>

RECURSIVE Dec(_)
Dec(n) ==
    IF n < 10 THEN <<DigitChar[n + 1]>>
    ELSE Dec(n \div 10) \o <<DigitChar[(n % 10) + 1]>>

\* bytes of a text in the encoding the first decoding attempt accepts
Utf8(t) == [enc |-> "utf-8", text |-> t]
\* other bytes (invalid as utf-8, valid as utf-16) that decode to the same text
Utf16(t) == [enc |-> "utf-16", text |-> t]

_safe_decode(b) == b.text

\* str.lower on the letters the inputs use
Lower(s) ==
    [i \in 1..Len(s) |->
        CASE s[i] = "A" -> "a" [] s[i] = "B" -> "b" [] s[i] = "H" -> "h"
          [] s[i] = "S" -> "s"
          [] OTHER -> s[i]]

StartsWith(s, prefix) ==
    Len(prefix) <= Len(s) /\ SubSeq(s, 1, Len(prefix)) = prefix

EndsWith(s, suffix) ==
    Len(suffix) <= Len(s)
    /\ SubSeq(s, Len(s) - Len(suffix) + 1, Len(s)) = suffix

RECURSIVE LStripSlash(_)
LStripSlash(s) ==
    IF s # <<>> /\ Head(s) = "/" THEN LStripSlash(Tail(s)) ELSE s

\* s.replace("\\", "/")
ReplaceBackslash(s) == [i \in 1..Len(s) |-> IF s[i] = "\\" THEN "/" ELSE s[i]]

\* s.split(sep, 1)[0]
RECURSIVE Before(_, _)
Before(s, sep) ==
    IF s = <<>> \/ Head(s) = sep THEN <<>>
    ELSE <<Head(s)>> \o Before(Tail(s), sep)

--------------------------------------------------------------------------
(* Index Builder: _get_mdx_maps_cached's body.                             *)

EmptyMap == [k \in {} |-> <<>>]

MapGet(m, k) == IF k \in DOMAIN m THEN m[k] ELSE <<>>

ExactAppendOverwrite(exact, ks, v) == (ks :> <<v>>) @@ exact

\* exact.setdefault(ks, []).append(v)
ExactAppend(exact, ks, v) ==
    IF ks \in DOMAIN exact
    THEN [exact EXCEPT ![ks] = Append(@, v)]
    ELSE (ks :> <<v>>) @@ exact

CasefoldPutLast(cfm, cf, ks) == (cf :> ks) @@ cfm

\* if cf not in casefold_map: casefold_map[cf] = ks
CasefoldPut(cfm, cf, ks) ==
    IF cf \in DOMAIN cfm THEN cfm ELSE (cf :> ks) @@ cfm

RECURSIVE BuildFrom(_, _, _, _)
BuildFrom(items, i, exact, cfm) ==
    IF i > Len(items) THEN [exact |-> exact, casefold_map |-> cfm]
    ELSE LET ks == _safe_decode(items[i].k)
             cf == CaseFold(ks)
         IN  BuildFrom(items, i + 1,
                       ExactAppend(exact, ks, items[i].v),
                       CasefoldPut(cfm, cf, ks))

\* the (exact, casefold_map) pair a build of the file returns
_get_mdx_maps(items) == BuildFrom(items, 1, EmptyMap, EmptyMap)

--------------------------------------------------------------------------
(* Redirect Resolver: MdxService._resolve_mdx_link.                        *)

MaxDepthOneMore == 10 + 1

\* for _ in range(10)
MaxDepth == 10

\* positions where re.search(r"@@@LINK=(?P<target>.+)") can match: the
\* marker followed by at least one character other than a newline
LinkStarts(text) ==
    {i \in 1..Len(text) : text[i] = LINK /\ i < Len(text) /\ text[i + 1] # "\n"}

Min(S) == CHOOSE x \in S : \A y \in S : x <= y

\* the end of the greedy group ".+" that starts at position i
RECURSIVE GroupEnd(_, _)
GroupEnd(text, i) ==
    IF i < Len(text) /\ text[i + 1] # "\n" THEN GroupEnd(text, i + 1) ELSE i

\* m.group("target") of the leftmost match
LinkGroup(text) ==
    LET i == Min(LinkStarts(text))
    IN  SubSeq(text, i + 1, GroupEnd(text, i + 1))

Stopped(head, val, why, hops, seen) ==
    [head |-> head, vals |-> <<val>>, why |-> why, hops |-> hops,
     seen |-> seen, raised |-> FALSE]

\* an exception leaving the resolver
Raised(head, hops, seen) ==
    [head |-> head, vals |-> <<>>, why |-> "exception", hops |-> hops,
     seen |-> seen, raised |-> TRUE]

VisitedNever(target, seen) == FALSE

\* target in seen
Visited(target, seen) == target \in seen

NoEntriesNever(target_vals) == FALSE

\* if not target_vals
NoEntries(target_vals) == target_vals = <<>>

\* One pass of the loop body per hop; hops counts the completed passes that
\* moved to a target.  The result also records why the loop stopped and the
\* visited-target set.
RECURSIVE ResolveLoop(_, _, _, _, _)
ResolveLoop(exact_map, seen, cur_head, cur_val, hops) ==
    IF hops = MaxDepth THEN Stopped(cur_head, cur_val, "depth", hops, seen)
    ELSE LET text == _safe_decode(cur_val)
         IN  IF LinkStarts(text) = {}
             THEN Stopped(cur_head, cur_val, "terminal", hops, seen)
             ELSE LET target == Strip(LinkGroup(text))
                  IN  IF target = <<>>
                      THEN Stopped(cur_head, cur_val, "empty", hops, seen)
                      ELSE IF Visited(target, seen)
                      THEN Stopped(cur_head, cur_val, "cycle", hops, seen)
                      ELSE IF NoEntries(MapGet(exact_map, target))
                      \* cur_head = target was assigned before the lookup
                      THEN Stopped(target, cur_val, "broken", hops,
                                   seen \cup {target})
                      ELSE IF MapGet(exact_map, target) = <<>>
                      \* target_vals[0] of no list raises
                      THEN Raised(target, hops, seen \cup {target})
                      ELSE ResolveLoop(exact_map, seen \cup {target},
                               target, exact_map[target][1], hops + 1)

_resolve_mdx_link(exact_map, head, val_b) ==
    ResolveLoop(exact_map, {}, head, val_b, 0)

--------------------------------------------------------------------------
(* HTML Rewriter: rewrite_mdx_html.  An html text is its characters; a     *)
(* percent escape is one token.                                            *)

\* the index of the first occurrence of sub in s, 0 when there is none
FindSub(s, sub) ==
    LET hits == {i \in 1..(Len(s) - Len(sub) + 1) :
                    SubSeq(s, i, i + Len(sub) - 1) = sub}
    IN  IF hits = {} THEN 0 ELSE CHOOSE i \in hits : \A j \in hits : i <= j

\* s.split(sub, 1)[1], for an s that holds sub
AfterSub(s, sub) == SubSeq(s, FindSub(s, sub) + Len(sub), Len(s))

S_HTTP == <<"h", "t", "t", "p", ":", "/", "/">>
S_HTTPS == <<"h", "t", "t", "p", "s", ":", "/", "/">>
S_DATA == <<"d", "a", "t", "a", ":">>
S_SOUND == <<"s", "o", "u", "n", "d", ":", "/", "/">>
S_ENTRY == <<"e", "n", "t", "r", "y", ":", "/", "/">>
S_BWORD == <<"b", "w", "o", "r", "d", ":", "/", "/">>
S_FILE == <<"f", "i", "l", "e", ":", "/", "/">>

\* f'/dict_asset/{dict_id}/{rel}'
AssetUrl(dict_id, rel) ==
    <<"/", "d", "i", "c", "t", "_", "a", "s", "s", "e", "t", "/">>
    \o Dec(dict_id) \o <<"/">> \o rel

\* urllib.parse.quote of one character: letters, digits and "_.-~/" stay
QuoteChar(c) ==
    CASE c = " " -> "%20"
      [] c = "?" -> "%3F"
      [] c = "#" -> "%23"
      [] c = ":" -> "%3A"
      [] c = "\\" -> "%5C"
      [] OTHER -> c

quoteNothing(s) == s

\* urllib.parse.quote: a reserved character becomes its escape token
quote(s) == [i \in 1..Len(s) |-> QuoteChar(s[i])]

\* f'/dictionary/entry?dict_id={dict_id}&q={quote(target)}'
EntryUrl(dict_id, target) ==
    <<"/", "d", "i", "c", "t", "i", "o", "n", "a", "r", "y", "/",
      "e", "n", "t", "r", "y", "?", "d", "i", "c", "t", "_", "i", "d", "=">>
    \o Dec(dict_id) \o <<"&", "q", "=">> \o quote(target)

KeepsUrlNever(url) == FALSE

\* url.startswith(("http://", "https://", "data:"))
KeepsUrl(url) ==
    StartsWith(url, S_HTTP) \/ StartsWith(url, S_HTTPS)
    \/ StartsWith(url, S_DATA)

\* url.split("sound://", 1)[1].lstrip("/").replace("\\", "/")
SoundRel(url) == ReplaceBackslash(LStripSlash(AfterSub(url, S_SOUND)))

\* the last branch of repl: file:// prefix, slashes, query and fragment,
\* leading "./" and "/"
UrlNorm(url) ==
    LET u1 == IF StartsWith(url, S_FILE)
              THEN LStripSlash(AfterSub(url, S_FILE)) ELSE url
        u2 == ReplaceBackslash(u1)
        u3 == Before(Before(u2, "?"), "#")
        u4 == IF StartsWith(u3, <<".", "/">>) THEN SubSeq(u3, 3, Len(u3))
              ELSE u3
    IN  LStripSlash(u4)

\* what repl gives for one match: the replacement text, or the exception
\* that leaves rewrite_mdx_html
Replaced(text) == [raised |-> FALSE, text |-> text]

ReplRaised == [raised |-> TRUE, text |-> <<>>]

\* repl(m) for the match whole = attr=q url q
Repl(dict_id, attr, q, raw_url, whole) ==
    LET url == Strip(raw_url)
        Attr(value) == Replaced(attr \o <<"=", q>> \o value \o <<q>>)
    IN  IF url = <<>> THEN Replaced(whole)
        ELSE IF KeepsUrl(url) THEN Replaced(whole)
        ELSE IF StartsWith(Lower(url), S_SOUND)
        THEN IF FindSub(url, S_SOUND) = 0 THEN ReplRaised
             ELSE Attr(AssetUrl(dict_id, SoundRel(url)))
        ELSE IF StartsWith(Lower(url), S_ENTRY)
                \/ StartsWith(Lower(url), S_BWORD)
        THEN Attr(EntryUrl(dict_id, Strip(AfterSub(url, <<":", "/", "/">>))))
        ELSE IF UrlNorm(url) = <<>> \/ StartsWith(UrlNorm(url), <<"#">>)
        THEN Replaced(whole)
        ELSE Attr(AssetUrl(dict_id, UrlNorm(url)))

\* _ATTR_RE at position i: the length of the attribute name (src|href,
\* any case) when it is followed by = and a quote, 0 otherwise
AttrAt(html, i) ==
    LET at == Lower(SubSeq(html, i, Len(html)))
        n == IF StartsWith(at, <<"s", "r", "c">>) THEN 3
             ELSE IF StartsWith(at, <<"h", "r", "e", "f">>) THEN 4
             ELSE 0
    IN  IF n > 0 /\ i + n + 1 <= Len(html) /\ html[i + n] = "="
           /\ html[i + n + 1] \in {"\"", "'"}
        THEN n ELSE 0

\* _ATTR_RE at position i: the index of the closing quote of the match
\* that starts there, 0 when none does; "." does not match a line feed
MatchEnd(html, i) ==
    LET n == AttrAt(html, i)
        closes == {k \in (i + n + 2)..Len(html) : html[k] = html[i + n + 1]}
        k0 == CHOOSE k \in closes : \A m \in closes : k <= m
    IN  IF n = 0 \/ closes = {} THEN 0
        ELSE IF \E m \in (i + n + 2)..(k0 - 1) : html[m] = "\n" THEN 0
        ELSE k0

\* what sub has for a stretch of the text followed by the rest of it
JoinReplaced(first, rest) ==
    [raised |-> first.raised \/ rest.raised, text |-> first.text \o rest.text]

\* the match of _ATTR_RE that starts at position i and ends at j, replaced
ReplAt(dict_id, html, i, j) ==
    Repl(dict_id, SubSeq(html, i, i + AttrAt(html, i) - 1),
         html[i + AttrAt(html, i) + 1],
         SubSeq(html, i + AttrAt(html, i) + 2, j - 1), SubSeq(html, i, j))

\* _ATTR_RE.sub(repl, html) from position i on: a match is replaced and
\* the scan goes on behind it, any other character is copied
RECURSIVE RewriteFrom(_, _, _)
RewriteFrom(dict_id, html, i) ==
    IF i > Len(html) THEN Replaced(<<>>)
    ELSE LET j == MatchEnd(html, i)
             step == IF j = 0
                     THEN [out |-> Replaced(<<html[i]>>), next |-> i + 1]
                     ELSE [out |-> ReplAt(dict_id, html, i, j), next |-> j + 1]
         IN  JoinReplaced(step.out, RewriteFrom(dict_id, html, step.next))

rewrite_mdx_html(dict_id, html) ==
    CHOOSE r \in {RewriteFrom(dict_id, text, 1) : text \in {html}} : TRUE

--------------------------------------------------------------------------
(* Lookup Engine: MdxService.lookup.                                       *)

\* the ids requested, and those the metadata store holds a dictionary for
DictIds == {1, 2}
InstalledDicts == {1}

\* hash(rv) of a byte string; distinct byte strings of the model get
\* distinct hashes
PyHash(rv) == <<rv.enc, rv.text>>

NoMaps == [exact |-> EmptyMap, casefold_map |-> EmptyMap]

LookupError(dict_id, word, msg) ==
    [dict_id |-> dict_id, word |-> word, kind |-> "error", msg |-> msg,
     found |-> FALSE, lookup_key |-> <<>>, entries |-> <<>>,
     matched |-> <<>>, resolved |-> <<>>, maps |-> NoMaps]

LookupExceptionResult(dict_id, word, maps) ==
    [dict_id |-> dict_id, word |-> word, kind |-> "exception", msg |-> "",
     found |-> FALSE, lookup_key |-> <<>>, entries |-> <<>>,
     matched |-> <<>>, resolved |-> <<>>, maps |-> maps]

LookupReturnFound(dict_id, word, maps, found, lookup_key, entries, vals, res) ==
    [dict_id |-> dict_id, word |-> word, kind |-> "ok", msg |-> "",
     found |-> TRUE, lookup_key |-> lookup_key, entries |-> entries,
     matched |-> vals, resolved |-> res, maps |-> maps]

\* Beside the LookupResult fields, a result keeps the locals of the call:
\* maps (exact_map, casefold_map), matched (vals) and resolved (what
\* _resolve_mdx_link returned for each of vals).
LookupReturn(dict_id, word, maps, found, lookup_key, entries, vals, res) ==
    [dict_id |-> dict_id, word |-> word, kind |-> "ok", msg |-> "",
     found |-> found, lookup_key |-> lookup_key, entries |-> entries,
     matched |-> vals, resolved |-> res, maps |-> maps]

\* EntryResult(headword, html) for the resolved record rv, which is kept
\* beside it; rewritten says whether rewrite_mdx_html returned
EntryResult(dict_id, head, rv) ==
    CHOOSE e \in {[headword |-> head, raw |-> rv, html |-> r.text,
                   rewritten |-> ~r.raised] :
                     r \in {rewrite_mdx_html(dict_id, _safe_decode(rv))}} : TRUE

AppendEntryFirst(entries, e) == <<e>> \o entries

\* entries.append(EntryResult(...))
AppendEntry(entries, e) == Append(entries, e)

SeenKeyNever(key, seen) == FALSE

\* key in seen
SeenKey(key, seen) == key \in seen

\* the inner loop "for rv in resolved_vals": append the entries whose
\* (resolved_head, hash(rv)) key has not been seen
RECURSIVE AddEntries(_, _, _, _, _)
AddEntries(dict_id, entries, head, rvals, j) ==
    IF j > Len(rvals) THEN entries
    ELSE LET key == <<head, PyHash(rvals[j])>>
             seen == {<<entries[n].headword, PyHash(entries[n].raw)>> :
                         n \in 1..Len(entries)}
         IN  AddEntries(dict_id,
                        IF SeenKey(key, seen) THEN entries
                        ELSE AppendEntry(entries,
                                 EntryResult(dict_id, head, rvals[j])),
                        head, rvals, j + 1)

\* the outer loop "for v in vals"; the resolver's results are kept beside
\* the entries
RECURSIVE CollectEntries(_, _, _, _, _, _, _)
CollectEntries(dict_id, exact_map, lookup_key, vals, i, entries, resolved) ==
    IF i > Len(vals) THEN [entries |-> entries, resolved |-> resolved]
    ELSE LET r == _resolve_mdx_link(exact_map, lookup_key, vals[i])
         IN  CollectEntries(dict_id, exact_map, lookup_key, vals, i + 1,
                            AddEntries(dict_id, entries, r.head, r.vals, 1),
                            Append(resolved, r))

CaseFallbackOff(maps, word) == word

\* step 2 of lookup: the key the case-insensitive fallback maps the word to
CaseFallback(maps, word) ==
    LET cf == CaseFold(word)
    IN  IF cf \in DOMAIN maps.casefold_map THEN maps.casefold_map[cf]
        ELSE word

LookupKeyFoldFirst(maps, word) == CaseFallback(maps, word)

\* steps 1 and 2 of lookup: the word when it is an exact key, else what the
\* fallback maps it to
LookupKey(maps, word) ==
    IF word \in DOMAIN maps.exact THEN word ELSE CaseFallback(maps, word)

\* no lookup has been made
NoLookup ==
    [dict_id |-> 0, word |-> <<>>, kind |-> "none", msg |-> "",
     found |-> FALSE, lookup_key |-> <<>>, entries |-> <<>>,
     matched |-> <<>>, resolved |-> <<>>, maps |-> NoMaps]

LookupPrecheckIdFirst(raw_word, has_dict, on_disk) ==
    IF ~has_dict THEN "Dictionary not found."
    ELSE IF Strip(raw_word) = <<>> THEN "Please enter a word."
    ELSE IF ~on_disk THEN "MDX file missing on server."
    ELSE ""

\* lines 110-122 of lookup: the message of the DictLookupError raised
\* before the index is asked for, "" when there is none
LookupPrecheck(raw_word, has_dict, on_disk) ==
    IF Strip(raw_word) = <<>> THEN "Please enter a word."
    ELSE IF ~has_dict THEN "Dictionary not found."
    ELSE IF ~on_disk THEN "MDX file missing on server."
    ELSE ""

\* lines 126-156 of lookup, with the maps _get_mdx_maps_cached returned.
\* An entry stands for EntryResult(headword, html): raw is the resolved
\* record the html is rewritten from.
LookupIn(dict_id, raw_word, maps) ==
    LET word == Strip(raw_word)
        lookup_key == LookupKey(maps, word)
        vals == MapGet(maps.exact, lookup_key)
    IN  IF vals = <<>>
        THEN LookupReturn(dict_id, raw_word, maps, FALSE, word, <<>>, <<>>,
                          <<>>)
        ELSE LET c == CollectEntries(dict_id, maps.exact, lookup_key, vals,
                                     1, <<>>, <<>>)
             IN  IF \/ \E n \in 1..Len(c.resolved) : c.resolved[n].raised
                    \/ \E n \in 1..Len(c.entries) : ~c.entries[n].rewritten
                 THEN LookupExceptionResult(dict_id, raw_word, maps)
                 ELSE LookupReturn(dict_id, raw_word, maps, TRUE,
                                   lookup_key, c.entries, vals, c.resolved)

\* lookup on a cold cache: the index is built from what the adapter yields
lookup(dict_id, raw_word, has_dict, on_disk, items) ==
    IF LookupPrecheck(raw_word, has_dict, on_disk) # ""
    THEN LookupError(dict_id, raw_word,
                     LookupPrecheck(raw_word, has_dict, on_disk))
    ELSE LookupIn(dict_id, raw_word, _get_mdx_maps(items))

--------------------------------------------------------------------------
(* Paths: str.startswith, str.split, str.lstrip("/"), Path.resolve on a    *)
(* file system without symbolic links.                                     *)

\* urllib.parse.unquote: an escape token stands for its three characters
UnquoteChar(c) ==
    CASE c = "%2E" -> "."
      [] c = "%2F" -> "/"
      [] c = "%5C" -> "\\"
      [] c = "%20" -> " "
      [] c = "%3F" -> "?"
      [] c = "%23" -> "#"
      [] c = "%3A" -> ":"
      [] OTHER -> c

unquote(s) == [i \in 1..Len(s) |-> UnquoteChar(s[i])]

\* the segments of a path string
RECURSIVE SplitPath(_)
SplitPath(s) ==
    IF s = <<>> THEN <<>>
    ELSE IF Head(s) = "/" THEN SplitPath(Tail(s))
    ELSE LET seg == Before(s, "/")
         IN  <<seg>> \o SplitPath(SubSeq(s, Len(seg) + 1, Len(s)))

RECURSIVE JoinPath(_)
JoinPath(segs) ==
    IF segs = <<>> THEN <<>>
    ELSE <<"/">> \o Head(segs) \o JoinPath(Tail(segs))

DOT == <<".">>
DOTDOT == <<".", ".">>

\* drop "." segments and fold ".." segments into their parent
RECURSIVE Normalize(_, _)
Normalize(segs, out) ==
    IF segs = <<>> THEN out
    ELSE IF Head(segs) = DOT THEN Normalize(Tail(segs), out)
    ELSE IF Head(segs) = DOTDOT
    THEN Normalize(Tail(segs),
                   IF out = <<>> THEN out ELSE SubSeq(out, 1, Len(out) - 1))
    ELSE Normalize(Tail(segs), Append(out, Head(segs)))

\* str(Path(p).resolve()) of an absolute path string
ResolvePath(p) ==
    LET segs == Normalize(SplitPath(p), <<>>)
    IN  IF segs = <<>> THEN <<"/">> ELSE JoinPath(segs)

\* str((base / rel).resolve())
JoinResolve(base, rel) == ResolvePath(base \o <<"/">> \o rel)

\* the directory holds the path: the path is the directory or lies below it
Within(path, dir) == path = dir \/ StartsWith(path, dir \o <<"/">>)

\* settings.DICT_ROOT, for an application installed in /app
DICT_ROOT ==
    <<"/", "a", "p", "p", "/", "d", "i", "c", "t", "i", "o", "n", "a", "r",
      "i", "e", "s">>

\* Path.name of a path string
PathName(p) ==
    LET segs == SplitPath(p) IN IF segs = <<>> THEN <<>> ELSE segs[Len(segs)]

EXT_MDX == <<".", "m", "d", "x">>
EXT_MDD == <<".", "m", "d", "d">>
EXT_CSS == <<".", "c", "s", "s">>
EXT_PNG == <<".", "p", "n", "g">>

\* mimetypes.guess_type(name)[0] or "application/octet-stream"
GuessMime(name) ==
    IF EndsWith(name, EXT_PNG) THEN "image/png"
    ELSE IF EndsWith(name, EXT_CSS) THEN "text/css"
    ELSE "application/octet-stream"

\* the files of the disk below a directory, in discovery order
FilesUnder(files, dir) ==
    SelectSeq(files, LAMBDA f : StartsWith(f.path, dir \o <<"/">>))

\* list(dir.rglob("*" + ext))
RGlob(files, dir, ext) ==
    SelectSeq(FilesUnder(files, dir),
              LAMBDA f : EndsWith(PathName(f.path), ext))

FileAt(files, path) ==
    SelectSeq(files, LAMBDA f : f.path = path)

--------------------------------------------------------------------------
(* Asset index: _get_mdd_map_cached's body.                                *)

\* the key a source key is stored under
MddKey(k) ==
    LET k1 == ReplaceBackslash(_safe_decode(k))
        k2 == IF StartsWith(k1, <<".", "/">>)
              THEN SubSeq(k1, 3, Len(k1)) ELSE k1
    IN  LStripSlash(k2)

RECURSIVE MddFrom(_, _, _)
MddFrom(items, i, out) ==
    IF i > Len(items) THEN out
    ELSE MddFrom(items, i + 1, (MddKey(items[i].k) :> items[i].v) @@ out)

_get_mdd_map(items) == MddFrom(items, 1, [k \in {} |-> <<>>])

--------------------------------------------------------------------------
(* Asset Resolver: MdxService.get_asset_bytes.                             *)

GetById(rows, dict_id) == SelectSeq(rows, LAMBDA d : d.id = dict_id)

AssetError(dict_id, asset_path, msg) ==
    [dict_id |-> dict_id, asset_path |-> asset_path, kind |-> "error",
     msg |-> msg, data |-> "", mime |-> "", read |-> <<>>,
     opened |-> <<>>]

\* read is the path of the file the bytes were read from: the extracted
\* file, or the packed-asset container; opened lists the containers whose
\* index was asked for, in order
AssetReturn(dict_id, asset_path, data, mime, read) ==
    [dict_id |-> dict_id, asset_path |-> asset_path, kind |-> "ok",
     msg |-> "", data |-> data, mime |-> mime, read |-> read,
     opened |-> <<>>]

\* the first (container, key) pair, in probing order, that holds a key
RECURSIVE ProbeMdds(_, _, _, _)
ProbeMdds(mdds, key_candidates, i, j) ==
    IF i > Len(mdds)
    THEN [hit |-> FALSE, path |-> <<>>, key |-> <<>>, n |-> Len(mdds)]
    ELSE IF j > Len(key_candidates)
    THEN ProbeMdds(mdds, key_candidates, i + 1, 1)
    ELSE LET k_norm == LStripSlash(ReplaceBackslash(key_candidates[j]))
         IN  IF k_norm \in DOMAIN _get_mdd_map(mdds[i].items)
             THEN [hit |-> TRUE, path |-> mdds[i].path, key |-> k_norm,
                   n |-> i]
             ELSE ProbeMdds(mdds, key_candidates, i, j + 1)

IsFileNever(files, candidate) == FALSE

\* candidate.exists() and candidate.is_file()
IsFile(files, candidate) == FileAt(files, candidate) # <<>>

InsideBaseAlways(candidate, base_dir) == TRUE

\* str(candidate).startswith(str(base_dir))
InsideBase(candidate, base_dir) == StartsWith(candidate, base_dir)

get_asset_bytes(rows, files, dict_id, raw_path) ==
    LET found == GetById(rows, dict_id)
    IN  IF found = <<>>
        THEN AssetError(dict_id, raw_path, "Dictionary not found.")
        ELSE
        LET d == found[1]
            p1 == ReplaceBackslash(unquote(raw_path))
            p2 == Before(Before(p1, "?"), "#")
            asset_path == LStripSlash(p2)
            base_dir == ResolvePath(DICT_ROOT \o <<"/">> \o d.folder)
            candidate == JoinResolve(base_dir, asset_path)
        IN  IF ~InsideBase(candidate, base_dir)
            THEN AssetError(dict_id, raw_path, "Invalid asset path.")
            ELSE IF IsFile(files, candidate)
            THEN AssetReturn(dict_id, raw_path,
                             FileAt(files, candidate)[1].data,
                             GuessMime(PathName(candidate)), candidate)
            ELSE
            LET mdds == RGlob(files, base_dir, EXT_MDD)
                key_candidates ==
                    <<asset_path, LStripSlash(asset_path),
                      <<"/">> \o LStripSlash(asset_path)>>
                probe == ProbeMdds(mdds, key_candidates, 1, 1)
                opened == SubSeq(mdds, 1, probe.n)
            IN  IF mdds = <<>> \/ ~probe.hit
                THEN [AssetError(dict_id, raw_path, "Asset not found.")
                         EXCEPT !.opened = opened]
                ELSE [AssetReturn(dict_id, raw_path,
                          _get_mdd_map(FileAt(files, probe.path)[1].items)
                              [probe.key],
                          GuessMime(probe.key), probe.path)
                         EXCEPT !.opened = opened]

--------------------------------------------------------------------------
(* Installer: DictInstallService.install_from_zip_bytes and                *)
(* DictRepo.create.                                                        *)

SafeChars ==
    {"a", "b", "c", "d", "e", "x", "A", "B", ".", "_", "-",
     "0", "1", "2", "3", "4", "5", "6", "7", "8", "9"}

\* re.sub(r"[^a-zA-Z0-9._-]+", "_", name): each run of other characters
\* becomes one underscore
RECURSIVE SubUnsafe(_, _)
SubUnsafe(s, in_run) ==
    IF s = <<>> THEN <<>>
    ELSE IF Head(s) \in SafeChars THEN <<Head(s)>> \o SubUnsafe(Tail(s), FALSE)
    ELSE IF in_run THEN SubUnsafe(Tail(s), TRUE)
    ELSE <<"_">> \o SubUnsafe(Tail(s), TRUE)

SafeNameMax == 80

_safe_name(name) ==
    LET n == SubUnsafe(Strip(name), FALSE)
        cut == SubSeq(n, 1, IF Len(n) < SafeNameMax THEN Len(n) ELSE SafeNameMax)
    IN  IF cut = <<>>
        THEN <<"d", "i", "c", "t", "i", "o", "n", "a", "r", "y">>
        ELSE cut

\* datetime.now(timezone.utc).strftime("%Y%m%d%H%M%S") within the first
\* minute of 2024
Stamp(now) ==
    <<"2", "0", "2", "4", "0", "1", "0", "1", "0", "0", "0", "0">>
    \o <<DigitChar[(now \div 10) + 1], DigitChar[(now % 10) + 1]>>

\* Path(member).is_absolute() or ".." in Path(member).parts
UnsafeMemberNever(member) == FALSE

UnsafeMember(member) ==
    \/ StartsWith(member, <<"/">>)
    \/ \E n \in 1..Len(SplitPath(member)) : SplitPath(member)[n] = DOTDOT

\* write a file: an existing file at the path keeps its place and gets the
\* new content
WriteFile(files, f) ==
    IF FileAt(files, f.path) = <<>> THEN Append(files, f)
    ELSE [i \in 1..Len(files) |-> IF files[i].path = f.path THEN f ELSE files[i]]

RemoveFile(files, path) == SelectSeq(files, LAMBDA f : f.path # path)

\* shutil.rmtree(dir, ignore_errors=True)
RmTreeNothing(files, dir) == files

RmTreeRoot(files, dir) ==
    SelectSeq(files, LAMBDA f : ~Within(f.path, DICT_ROOT))

RmTree(files, dir) == SelectSeq(files, LAMBDA f : ~Within(f.path, dir))

\* z.extractall(target_dir)
RECURSIVE ExtractAll(_, _, _, _)
ExtractAll(files, target_dir, members, i) ==
    IF i > Len(members) THEN files
    ELSE ExtractAll(
             WriteFile(files,
                 [path |-> JoinResolve(target_dir, members[i].name),
                  data |-> members[i].data, items |-> members[i].items]),
             target_dir, members, i + 1)

\* str(path.relative_to(target_dir))
RelativeTo(path, dir) == SubSeq(path, Len(dir) + 2, Len(path))

EXT_JPG == <<".", "j", "p", "g">>
EXT_JPEG == <<".", "j", "p", "e", "g">>
EXT_WEBP == <<".", "w", "e", "b", "p">>
EXT_GIF == <<".", "g", "i", "f">>

CoverPrefixes ==
    {<<"c", "o", "v", "e", "r">>, <<"i", "c", "o", "n">>, <<"l", "o", "g", "o">>}

IsCoverName(name) == \E pre \in CoverPrefixes : StartsWith(Lower(name), pre)

\* the cover image: the first image named cover*, icon* or logo*, else the
\* first image; <<>> stands for None
CoverOf(image_files) ==
    LET named == SelectSeq(image_files, LAMBDA f : IsCoverName(PathName(f.path)))
    IN  IF named # <<>> THEN <<named[1]>>
        ELSE IF image_files # <<>> THEN <<image_files[1]>>
        ELSE <<>>

\* the paths z.extractall(target_dir) writes, in the archive's order
ExtractedPaths(target_dir, members) ==
    [i \in 1..Len(members) |-> JoinResolve(target_dir, members[i].name)]

InstallFailed(kind, msg, files, rows, folder, extracted) ==
    [kind |-> kind, msg |-> msg, disk |-> files, rows |-> rows,
     folder |-> folder, id |-> 0, extracted |-> extracted]

\* The outcome of an install: its kind ("ok", "error" for DictInstallError,
\* "exception" for any other exception), the disk and the table after it,
\* the folder it made, and the paths extraction wrote during the call.
install_from_zip_bytes(raw_name, zip, now, files, rows) ==
    LET name == Strip(raw_name)
        folder_name == _safe_name(name) \o <<"_">> \o Stamp(now)
        target_dir == DICT_ROOT \o <<"/">> \o folder_name
        zip_path == target_dir \o <<"/", "u", "p", "l", "o", "a", "d", ".",
                                    "z", "i", "p">>
        written == WriteFile(files,
                       [path |-> zip_path, data |-> "zip", items |-> <<>>])
        cleaned == RmTree(written, target_dir)
    IN  IF Len(name) < 2
        THEN InstallFailed("error", "Dictionary name is too short.", files,
                           rows, <<>>, <<>>)
        ELSE IF FilesUnder(files, target_dir) # <<>>
        \* target_dir.mkdir(parents=True, exist_ok=False), outside the try
        THEN InstallFailed("exception", "FileExistsError", files, rows, <<>>,
                           <<>>)
        ELSE IF ~zip.valid
        THEN InstallFailed("exception", "BadZipFile", cleaned, rows,
                           folder_name, <<>>)
        ELSE IF \E n \in 1..Len(zip.members) : UnsafeMember(zip.members[n].name)
        \* the loop over z.namelist() ends before z.extractall is reached
        THEN InstallFailed("error", "ZIP contains unsafe paths.", cleaned,
                           rows, folder_name, <<>>)
        ELSE
        LET extracted == RemoveFile(
                             ExtractAll(written, target_dir, zip.members, 1),
                             zip_path)
            mdx_files == RGlob(extracted, target_dir, EXT_MDX)
            css_files == RGlob(extracted, target_dir, EXT_CSS)
            image_files == RGlob(extracted, target_dir, EXT_PNG)
                           \o RGlob(extracted, target_dir, EXT_JPG)
                           \o RGlob(extracted, target_dir, EXT_JPEG)
                           \o RGlob(extracted, target_dir, EXT_WEBP)
                           \o RGlob(extracted, target_dir, EXT_GIF)
            cover == CoverOf(image_files)
            row == [id |-> Len(rows) + 1, name |-> name,
                    folder |-> folder_name,
                    mdx_filename |-> RelativeTo(mdx_files[1].path, target_dir),
                    css_filename |->
                        IF css_files = <<>> THEN <<>>
                        ELSE RelativeTo(css_files[1].path, target_dir),
                    cover_filename |->
                        IF cover = <<>> THEN <<>>
                        ELSE RelativeTo(cover[1].path, target_dir)]
        IN  IF Len(mdx_files) # 1
            THEN InstallFailed("error",
                               "ZIP must contain exactly one .mdx file.",
                               RmTree(extracted, target_dir), rows,
                               folder_name,
                               ExtractedPaths(target_dir, zip.members))
            ELSE IF \E n \in 1..Len(rows) : rows[n].name = name
            \* name TEXT NOT NULL UNIQUE
            THEN InstallFailed("exception", "IntegrityError",
                               RmTree(extracted, target_dir), rows,
                               folder_name,
                               ExtractedPaths(target_dir, zip.members))
            ELSE [kind |-> "ok", msg |-> "", disk |-> extracted,
                  rows |-> Append(rows, row), folder |-> folder_name,
                  id |-> row.id,
                  extracted |-> ExtractedPaths(target_dir, zip.members)]

--------------------------------------------------------------------------
(* Index Cache: functools.lru_cache(maxsize=8), applied twice to           *)
(* _get_mdx_maps_cached.  A cache is the sequence of its entries, least    *)
(* recently used first.                                                    *)

MdxCacheSize == 8

\* the position of a key in a cache, 0 when it is not cached
LruIndex(cache, key) ==
    IF \E i \in 1..Len(cache) : cache[i].key = key
    THEN CHOOSE i \in 1..Len(cache) : cache[i].key = key
    ELSE 0

\* a hit moves the entry to the most recently used end
LruTouch(cache, i) ==
    SubSeq(cache, 1, i - 1) \o SubSeq(cache, i + 1, Len(cache)) \o <<cache[i]>>

\* after the wrapped call: a key cached meanwhile is left alone, a full
\* cache drops its oldest entry
LruPut(cache, maxsize, key, val) ==
    IF LruIndex(cache, key) # 0 THEN cache
    ELSE IF Len(cache) < maxsize
    THEN Append(cache, [key |-> key, val |-> val])
    ELSE Append(Tail(cache), [key |-> key, val |-> val])

LruStore(cache, key, val) == LruPut(cache, MdxCacheSize, key, val)

\* the n distinct keys asked for last, oldest first, once key is asked for
MostRecent(keys, n, key) ==
    LET others == SelectSeq(keys, LAMBDA k : k # key)
    IN  Append(IF Len(others) >= n THEN Tail(others) ELSE others, key)

MddCacheSize == 32

\* the calls _get_mdd_map_cached(dict_id, str(mdd_path)) for the containers
\* opened, from the i-th on: a hit is moved to the recent end, a miss is
\* built and stored
RECURSIVE MddCalls(_, _, _, _)
MddCalls(cache, dict_id, opened, i) ==
    IF i > Len(opened) THEN cache
    ELSE LET key == <<dict_id, opened[i].path>>
             at == LruIndex(cache, key)
         IN  MddCalls(IF at # 0 THEN LruTouch(cache, at)
                      ELSE LruPut(cache, MddCacheSize, key,
                                  _get_mdd_map(opened[i].items)),
                      dict_id, opened, i + 1)

\* the wrapped function on a headword file: MDX(mdx_path) raises on a file
\* it cannot decode, otherwise the maps are built from all its records
_get_mdx_maps_cached(file) ==
    IF file.data = "corrupt" THEN [raised |-> TRUE, maps |-> NoMaps]
    ELSE [raised |-> FALSE, maps |-> _get_mdx_maps(file.items)]

LruStoreRaised(cache, key, built) == LruStore(cache, key, built.maps)

\* lru_cache after the wrapped call: an exception passes through and
\* nothing is stored
LruStoreResult(cache, key, built) ==
    IF built.raised THEN cache ELSE LruStore(cache, key, built.maps)

--------------------------------------------------------------------------
(* The file-system specification: an administrator installs dictionaries   *)
(* from archives, time passes, and assets are requested.                   *)

MaxClock == 2
MaxDicts == 2

F_MDX == <<"d", ".", "m", "d", "x">>
F_MDX2 == <<"e", ".", "m", "d", "x">>
F_MDD == <<"r", ".", "m", "d", "d">>
F_PNG == <<"i", ".", "p", "n", "g">>
F_PNG2 == <<"j", ".", "p", "n", "g">>
F_MDD2 == <<"s", ".", "m", "d", "d">>
F_EVIL == <<".", ".", "/", "e", "v", "i", "l">>

Member(name, data) == [name |-> name, data |-> data, items |-> <<>>]

\* a packed-asset container and what MDD(path).items() yields for it
Container(name, items) == [name |-> name, data |-> "mdd", items |-> items]

\* a container that holds the image under two spellings and a file under
\* a key with a dot segment
PackedItems ==
    <<[k |-> Utf8(<<".", "/">> \o F_PNG), v |-> "packed-old"],
      [k |-> Utf8(<<"\\">> \o F_PNG), v |-> "packed-png"],
      [k |-> Utf8(<<"\\", ".", "\\", "a">>), v |-> "packed-a"]>>

\* a second container: the image again, and an image of its own
PackedItems2 ==
    <<[k |-> Utf8(F_PNG), v |-> "packed-png-2"],
      [k |-> Utf8(<<"/">> \o F_PNG2), v |-> "packed-png-3"]>>

Zips ==
    {[valid |-> TRUE, members |-> <<Member(F_MDX, "mdx-1")>>],
     [valid |-> TRUE,
      members |-> <<Member(F_MDX, "mdx-8"), Container(F_MDD, PackedItems),
                    Container(F_MDD2, PackedItems2)>>],
     [valid |-> TRUE,
      members |-> <<Member(F_MDX, "mdx-2"), Member(F_PNG, "png")>>],
     [valid |-> TRUE,
      members |-> <<Member(F_MDX, "mdx-3"), Container(F_MDD, PackedItems)>>],
     [valid |-> TRUE,
      members |-> <<Member(F_MDX, "mdx-4"), Member(F_MDX2, "mdx-5")>>],
     [valid |-> TRUE,
      members |-> <<Member(F_MDX, "mdx-6"), Member(F_EVIL, "evil")>>],
     [valid |-> TRUE,
      members |-> <<Member(F_EVIL, "evil-2"), Member(F_MDX, "mdx-7"),
                    Member(F_PNG, "png-3")>>],
     [valid |-> TRUE, members |-> <<Member(F_PNG, "png-2")>>],
     [valid |-> FALSE, members |-> <<>>]}

\* the names an administrator types: a plain name, a name that is too
\* short, and the folder name of a dictionary already installed
InstallNames(rows) ==
    {<<"a", "b">>, <<" ", "a", " ">>} \cup {rows[n].folder : n \in 1..Len(rows)}

PASSWD ==
    <<".", ".", "/", ".", ".", "/", "e", "t", "c", "/", "p", "a", "s", "s",
      "w", "d">>

\* the asset paths requested: files of the dictionary in several spellings,
\* the traversal to /etc/passwd, and files of the other folders on disk
AssetPaths(rows) ==
    {F_PNG, <<"/">> \o F_PNG, <<".", "/">> \o F_PNG, F_MDX \o <<"?", "x">>,
     F_PNG2,
     PASSWD, <<"%2E", "%2E", "%2F">> \o F_MDX}
    \cup {<<".", ".", "/">> \o rows[n].folder \o <<"/">> \o F_MDX :
             n \in 1..Len(rows)}

NoInstall == [kind |-> "none", msg |-> "", folder |-> <<>>, id |-> 0,
              name |-> <<>>, namelist |-> <<>>, extracted |-> <<>>]

NoAsset ==
    [dict_id |-> 0, asset_path |-> <<>>, kind |-> "none", msg |-> "",
     data |-> "", mime |-> "", read |-> <<>>, opened |-> <<>>]

\* a file outside DICT_ROOT that is on the disk from the start
OutsideFile ==
    [path |-> <<"/", "a", "p", "p", "/", "e", "t", "c", "/", "p", "a", "s",
                "s", "w", "d">>,
     data |-> "secret", items |-> <<>>]

NumThreads == 2
NumDicts == 2
MaxRequests == 2
CacheDicts == 10
MaxCacheRequests == 11
MaxRepeats == 2

Threads == 1..NumThreads

ThreadIdle ==
    [pc |-> "idle", dict_id |-> 0, word |-> <<>>, key |-> <<>>, n |-> 0,
     result |-> NoLookup]

CacheIdle ==
    /\ threads = [t \in Threads |-> ThreadIdle]
    /\ mdx_cache = <<>>
    /\ mdx_cache_inner = <<>>
    /\ builds = [i \in 1..NumDicts |-> 0]
    /\ recent_keys = <<>>
    /\ mdd_cache = <<>>

FsIdle ==
    /\ clock = 0
    /\ disk = <<OutsideFile>>
    /\ dictionaries = <<>>
    /\ install_result = NoInstall
    /\ asset_result = NoAsset

LookupIdle ==
    /\ mdx_items = <<>>
    /\ mdx_exists = FALSE
    /\ lookup_result = NoLookup

FsInit == FsIdle /\ LookupIdle /\ CacheIdle

\* a second passes
Tick ==
    /\ clock < MaxClock
    /\ clock' = clock + 1
    /\ UNCHANGED <<disk, dictionaries, install_result, asset_result,
                   lookup_vars, cache_vars>>

\* POST /admin/dicts/upload
Install(name, zip) ==
    /\ install_result.kind = "none" /\ asset_result.kind = "none"
    /\ Len(dictionaries) < MaxDicts
    /\ LET r == install_from_zip_bytes(name, zip, clock, disk, dictionaries)
       IN  /\ disk' = r.disk
           /\ dictionaries' = r.rows
           /\ install_result' = [kind |-> r.kind, msg |-> r.msg,
                                 folder |-> r.folder, id |-> r.id,
                                 name |-> name,
                                 namelist |-> [i \in 1..Len(zip.members) |->
                                                  zip.members[i].name],
                                 extracted |-> r.extracted]
    /\ UNCHANGED <<clock, asset_result, lookup_vars, cache_vars>>

\* the upload handler renders its page
InstallRespond ==
    /\ install_result.kind # "none"
    /\ install_result' = NoInstall
    /\ UNCHANGED <<clock, disk, dictionaries, asset_result, lookup_vars,
                   cache_vars>>

\* GET /dict_asset/{dict_id}/{asset_path}
GetAsset(dict_id, asset_path) ==
    /\ install_result.kind = "none" /\ asset_result.kind = "none"
    /\ asset_result' = get_asset_bytes(dictionaries, disk, dict_id, asset_path)
    /\ mdd_cache' = MddCalls(mdd_cache, dict_id, asset_result'.opened, 1)
    /\ UNCHANGED <<clock, disk, dictionaries, install_result, lookup_vars,
                   mdx_cache_vars>>

\* the asset handler sends its response
AssetRespond ==
    /\ asset_result.kind # "none"
    /\ asset_result' = NoAsset
    /\ UNCHANGED <<clock, disk, dictionaries, install_result, lookup_vars,
                   cache_vars>>

FsNext ==
    \/ Tick
    \/ \E name \in InstallNames(dictionaries), zip \in Zips : Install(name, zip)
    \/ InstallRespond
    \/ \E dict_id \in 1..(MaxDicts + 1), asset_path \in AssetPaths(dictionaries) :
          GetAsset(dict_id, asset_path)
    \/ AssetRespond

SpecFs == FsInit /\ [][FsNext]_vars

--------------------------------------------------------------------------
(* Properties of asset requests.                                           *)

\* the base folder of a dictionary of the table
BaseOf(dict_id) ==
    DICT_ROOT \o <<"/">> \o GetById(dictionaries, dict_id)[1].folder

AssetServed ==
    /\ asset_result.kind # "none"
    /\ GetById(dictionaries, asset_result.dict_id) # <<>>

\* C2: get_asset_bytes never returns a file whose resolved path lies
\* outside the dictionary's base folder, a sibling folder whose name starts
\* with the base folder's name included: such a request ends in the
\* path-traversal error.
C2_AssetStaysInsideBase ==
    (AssetServed /\ asset_result.kind = "ok") =>
        Within(asset_result.read, BaseOf(asset_result.dict_id))

\* C3: the asset path "../../etc/passwd" against an existing dictionary
\* ends in the path-traversal error and returns no bytes, whatever is on
\* the disk.
C3_PasswdTraversalRejected ==
    (AssetServed /\ asset_result.asset_path = PASSWD) =>
        /\ asset_result.kind = "error"
        /\ asset_result.msg = "Invalid asset path."
        /\ asset_result.data = ""

C3_Witness ==
    /\ AssetServed /\ asset_result.asset_path = PASSWD
    /\ asset_result.msg = "Invalid asset path."
    /\ \E n \in 1..Len(disk) :
          disk[n].path = JoinResolve(BaseOf(asset_result.dict_id), PASSWD)

\* the dictionary of the last request holds the packed asset F_PNG and no
\* extracted file of that name
PackedOnly ==
    /\ AssetServed
    /\ FileAt(disk, JoinResolve(BaseOf(asset_result.dict_id), F_PNG)) = <<>>
    /\ \E n \in 1..Len(disk) :
          /\ Within(disk[n].path, BaseOf(asset_result.dict_id))
          /\ EndsWith(disk[n].path, EXT_MDD)
          /\ F_PNG \in DOMAIN _get_mdd_map(disk[n].items)

\* C12: with no extracted file on disk and a packed-asset index keyed
\* "i.png", the asset paths "/i.png", "i.png" and "./i.png" all succeed
\* with the packed bytes and the MIME type of the key.
C12_PathSpellingsResolveAlike ==
    (/\ PackedOnly
     /\ asset_result.asset_path
           \in {<<"/">> \o F_PNG, F_PNG, <<".", "/">> \o F_PNG})
    => /\ asset_result.kind = "ok"
       /\ asset_result.data = "packed-png"
       /\ asset_result.mime = GuessMime(F_PNG)

\* the containers whose index is in the cache, each with its index
CachedContainers ==
    {[items |-> FileAt(disk, mdd_cache[n].key[2])[1].items,
      map |-> mdd_cache[n].val] : n \in 1..Len(mdd_cache)}

\* a source key with its backslashes turned into slashes
Slashed(k) == [i \in 1..Len(k.text) |-> IF k.text[i] = "\\" THEN "/" ELSE k.text[i]]

\* how many leading slashes the text has from position i on
RECURSIVE Slashes(_, _)
Slashes(s, i) == IF i <= Len(s) /\ s[i] = "/" THEN 1 + Slashes(s, i + 1) ELSE 0

\* the source key without one leading "./" and the slashes that follow
NormalKey(k) ==
    LET s == Slashed(k)
        a == IF Len(s) >= 2 /\ s[1] = "." /\ s[2] = "/" THEN 2 ELSE 0
    IN  SubSeq(s, a + Slashes(s, a + 1) + 1, Len(s))

\* the value of the last source key stored under the key
LastUnder(items, key) ==
    items[CHOOSE i \in 1..Len(items) :
             /\ NormalKey(items[i].k) = key
             /\ \A j \in (i + 1)..Len(items) : NormalKey(items[j].k) # key].v

KeysNormal(c) ==
    /\ DOMAIN c.map = {NormalKey(c.items[i].k) : i \in 1..Len(c.items)}
    /\ \A key \in DOMAIN c.map :
          /\ \A i \in 1..Len(key) : key[i] # "\\"
          /\ key # <<>> => key[1] # "/"
          /\ c.map[key] = LastUnder(c.items, key)

\* C26: every key of an asset index in the cache is a source key of its
\* container, normalized: it holds no backslash, has no leading slash and
\* does not start with "./"; of the source keys with one normalized key the
\* last gives the value.
C26_AssetKeysNormalized ==
    \A c \in CachedContainers :
        /\ KeysNormal(c)
        /\ \A key \in DOMAIN c.map : ~StartsWith(key, <<".", "/">>)

\* the normalized path of the request: unquoted, slashes forward, query
\* and fragment cut, leading slashes stripped
AssetRel ==
    LStripSlash(Before(Before(ReplaceBackslash(unquote(asset_result.asset_path)),
                              "?"), "#"))

\* the file the request names in the base folder of its dictionary
AssetFile == JoinResolve(BaseOf(asset_result.dict_id), AssetRel)

\* the containers of the dictionary, in discovery order, and the places of
\* those that hold the key
AssetMdds == RGlob(disk, BaseOf(asset_result.dict_id), EXT_MDD)

Holders ==
    {n \in 1..Len(AssetMdds) : AssetRel \in DOMAIN _get_mdd_map(AssetMdds[n].items)}

\* C27: a request for an unknown dictionary fails with a not-found error.
\* For a path inside the base folder: a file on disk at the path is
\* returned and no container is opened; else the containers are opened in
\* discovery order up to the first that holds the key, which gives the
\* bytes; else, all containers opened, the request fails with a not-found
\* error.
C27_AssetSourceOrder ==
    /\ (asset_result.kind # "none" /\ ~AssetServed)
          => /\ asset_result.kind = "error"
             /\ asset_result.msg = "Dictionary not found."
             /\ asset_result.opened = <<>>
    /\ (AssetServed /\ Within(AssetFile, BaseOf(asset_result.dict_id)))
          => IF FileAt(disk, AssetFile) # <<>>
             THEN /\ asset_result.kind = "ok"
                  /\ asset_result.data = FileAt(disk, AssetFile)[1].data
                  /\ asset_result.opened = <<>>
             ELSE IF Holders # {}
             THEN /\ asset_result.kind = "ok"
                  /\ asset_result.data =
                        _get_mdd_map(AssetMdds[Min(Holders)].items)[AssetRel]
                  /\ asset_result.opened = SubSeq(AssetMdds, 1, Min(Holders))
             ELSE /\ asset_result.kind = "error"
                  /\ asset_result.msg = "Asset not found."
                  /\ asset_result.opened = AssetMdds

\* the second of two containers gave the bytes after the first was opened
\* in vain, in a dictionary whose first container holds another key that
\* the second holds too
C27_Witness ==
    /\ AssetServed /\ asset_result.kind = "ok"
    /\ Len(AssetMdds) = 2 /\ Holders = {2}
    /\ asset_result.opened = AssetMdds
    /\ \E key \in DOMAIN _get_mdd_map(AssetMdds[1].items) :
          key \in DOMAIN _get_mdd_map(AssetMdds[2].items)

--------------------------------------------------------------------------
(* Properties of installs.                                                 *)

\* the folder install_from_zip_bytes makes for name at the current time
TargetDir(name) ==
    DICT_ROOT \o <<"/">> \o _safe_name(Strip(name)) \o <<"_">> \o Stamp(clock)

\* the install passes the name check and makes its folder
ReadsArchive(name) ==
    Len(Strip(name)) >= 2 /\ FilesUnder(disk, TargetDir(name)) = <<>>

UnsafeZip(zip) ==
    \E n \in 1..Len(zip.members) :
        \/ Head(zip.members[n].name) = "/"
        \/ DOTDOT \in {SplitPath(zip.members[n].name)[i] :
                          i \in 1..Len(SplitPath(zip.members[n].name))}

MdxCount(zip) ==
    Cardinality({n \in 1..Len(zip.members) :
                    EndsWith(zip.members[n].name, EXT_MDX)})

\* C13: an install that reads an archive with an absolute entry or an
\* entry with a ".." segment ends in the error "ZIP contains unsafe
\* paths.", adds no row to the table and leaves no file under its folder.
C13_UnsafeArchiveRejected ==
    [][\A name \in InstallNames(dictionaries), zip \in Zips :
          (Install(name, zip) /\ ReadsArchive(name) /\ UnsafeZip(zip))
          => /\ install_result'.kind = "error"
             /\ install_result'.msg = "ZIP contains unsafe paths."
             /\ dictionaries' = dictionaries
             /\ FilesUnder(disk', TargetDir(name)) = <<>>]_vars

\* an install has just been refused for unsafe paths and its folder is gone
C13_Witness ==
    /\ install_result.kind = "error"
    /\ install_result.msg = "ZIP contains unsafe paths."
    /\ install_result.folder # <<>>
    /\ FilesUnder(disk, DICT_ROOT \o <<"/">> \o install_result.folder) = <<>>

\* C22: an install of an archive with an unsafe entry, wherever the entry
\* stands in the archive, extracts nothing: no entry of the archive, safe
\* or unsafe, is written, and no file of the archive is on disk after it.
C22_UnsafeArchiveNeverExtracted ==
    [][\A name \in InstallNames(dictionaries), zip \in Zips :
          (Install(name, zip) /\ UnsafeZip(zip))
          => /\ install_result'.extracted = <<>>
             /\ \A n \in 1..Len(disk'), m \in 1..Len(zip.members) :
                   disk'[n].data # zip.members[m].data]_vars

\* an archive whose first entry is safe and whose second is not has just
\* been refused with nothing extracted, after a safe archive was installed
C22_Witness ==
    /\ install_result.kind = "error"
    /\ install_result.msg = "ZIP contains unsafe paths."
    /\ Len(install_result.namelist) = 2
    /\ ~UnsafeZip([members |-> <<Member(install_result.namelist[1], "")>>])
    /\ UnsafeZip([members |-> <<Member(install_result.namelist[2], "")>>])
    /\ install_result.extracted = <<>>
    /\ \E n \in 1..Len(dictionaries) :
          FilesUnder(disk, DICT_ROOT \o <<"/">> \o dictionaries[n].folder)
             # <<>>

\* C14: an install that reads a safe archive whose tree holds no .mdx file
\* or more than one ends in the error "ZIP must contain exactly one .mdx
\* file.", adds no row to the table and leaves no file under its folder.
C14_ArchiveShapeRejected ==
    [][\A name \in InstallNames(dictionaries), zip \in Zips :
          (/\ Install(name, zip) /\ ReadsArchive(name)
           /\ zip.valid /\ ~UnsafeZip(zip) /\ MdxCount(zip) # 1)
          => /\ install_result'.kind = "error"
             /\ install_result'.msg = "ZIP must contain exactly one .mdx file."
             /\ dictionaries' = dictionaries
             /\ FilesUnder(disk', TargetDir(name)) = <<>>]_vars

\* an install has just been refused for its shape and its folder is gone
C14_Witness ==
    /\ install_result.kind = "error"
    /\ install_result.msg = "ZIP must contain exactly one .mdx file."
    /\ install_result.folder # <<>>
    /\ FilesUnder(disk, DICT_ROOT \o <<"/">> \o install_result.folder) = <<>>

\* the folders under DICT_ROOT: the first path segment, below the root, of
\* the files on disk
DictFolders ==
    {SplitPath(SubSeq(disk[n].path, Len(DICT_ROOT) + 1, Len(disk[n].path)))[1] :
        n \in {m \in 1..Len(disk) : Within(disk[m].path, DICT_ROOT)}}

\* C15: at any time every folder under the root is the folder of exactly
\* one row of the table, and an install that fails changes neither the
\* table nor any file on disk: what it wrote is under its own folder, which
\* it removes.
C15_FoldersMatchRecords ==
    /\ [](\A f \in DictFolders :
             Cardinality({n \in 1..Len(dictionaries) :
                             dictionaries[n].folder = f}) = 1)
    /\ [][(install_result.kind = "none"
            /\ install_result'.kind \in {"error", "exception"})
           => (disk' = disk /\ dictionaries' = dictionaries)]_vars

\* the table rejected a record with a duplicate name, the folder of that
\* install is gone and the dictionary installed before still has its files
C15_Witness ==
    /\ install_result.kind = "exception"
    /\ install_result.msg = "IntegrityError"
    /\ FilesUnder(disk, DICT_ROOT \o <<"/">> \o install_result.folder) = <<>>
    /\ Len(dictionaries) = 1
    /\ FilesUnder(disk, DICT_ROOT \o <<"/">> \o dictionaries[1].folder) # <<>>

--------------------------------------------------------------------------
(* The lookup specification: the installed dictionary's headword file      *)
(* holds any short sequence of records, or a redirect chain; lookups are   *)
(* applied to it.                                                          *)

MaxItems == 3
MaxChain == 12

ItemKeys == {Utf8(<<"a", "b">>), Utf8(<<"A", "b">>), Utf8(<<"b">>)}

ItemValues ==
    {Utf8(<<"x">>),
     Utf8(<<LINK, "a", "b">>), Utf8(<<LINK, "b", "\r">>),
     Utf8(<<LINK, "z">>), Utf8(<<LINK, " ">>)}

Items == [k : ItemKeys, v : ItemValues]

SeqsUpTo(S, n) == UNION {[1..m -> S] : m \in 0..n}

ChainHead(i) == <<"h">> \o Dec(i)

ChainLink(i) ==
    [k |-> Utf8(ChainHead(i)), v |-> Utf8(<<LINK>> \o ChainHead(i + 1))]

\* h0 -> h1 -> ... -> hL: L redirect records in a row
Chain(L) == [i \in 1..L |-> ChainLink(i - 1)]

ChainTails(L) ==
    {<<>>, <<[k |-> Utf8(ChainHead(L)), v |-> Utf8(<<"x">>)]>>,
     <<[k |-> Utf8(ChainHead(L)), v |-> Utf8(<<"x">>)],
       [k |-> Utf8(ChainHead(L)), v |-> Utf8(<<"y">>)]>>,
     <<[k |-> Utf8(ChainHead(L)), v |-> Utf8(<<"x">>)],
       [k |-> Utf16(ChainHead(L)), v |-> Utf16(<<"x">>)]>>}
    \cup {<<[k |-> Utf8(ChainHead(L)), v |-> Utf8(<<LINK>> \o ChainHead(j))]>> :
             j \in 0..L}

ChainInputs == UNION {{Chain(L) \o t : t \in ChainTails(L)} : L \in 0..MaxChain}

MdxInputs == SeqsUpTo(Items, MaxItems) \cup ChainInputs

Words ==
    {<<"a", "b">>, <<"A", "B">>, <<" ", "b", "\n">>, <<"B">>, <<" ">>,
     <<"h", "0">>}

LookupInit ==
    /\ \/ mdx_exists = TRUE /\ mdx_items \in MdxInputs
       \/ mdx_exists = FALSE /\ mdx_items = <<>>
    /\ lookup_result = NoLookup
    /\ FsIdle /\ CacheIdle

\* a request handler calls mdx_service.lookup(dict_id, word)
Lookup(dict_id, word) ==
    /\ lookup_result.kind = "none"
    /\ lookup_result' = lookup(dict_id, word, dict_id \in InstalledDicts,
                               mdx_exists, mdx_items)
    /\ UNCHANGED <<mdx_items, mdx_exists, fs_vars, cache_vars>>

\* the handler renders the result and the request ends
LookupRespond ==
    /\ lookup_result.kind # "none"
    /\ lookup_result' = NoLookup
    /\ UNCHANGED <<mdx_items, mdx_exists, fs_vars, cache_vars>>

LookupNext ==
    \/ \E dict_id \in InstalledDicts, word \in Words : Lookup(dict_id, word)
    \/ \E dict_id \in DictIds \ InstalledDicts,
          word \in {<<"a", "b">>, <<" ">>} : Lookup(dict_id, word)
    \/ LookupRespond

SpecLookup == LookupInit /\ [][LookupNext]_vars

--------------------------------------------------------------------------
(* Properties of lookups, stated over the file's records.                  *)

\* the headword of the i-th record the adapter yields
KeyAt(i) == mdx_items[i].k.text

StoredKeys == {KeyAt(i) : i \in 1..Len(mdx_items)}

\* the records of a headword, in the adapter's iteration order
RECURSIVE RecordsFrom(_, _)
RecordsFrom(key, i) ==
    IF i > Len(mdx_items) THEN <<>>
    ELSE IF KeyAt(i) = key THEN <<mdx_items[i].v>> \o RecordsFrom(key, i + 1)
    ELSE RecordsFrom(key, i + 1)

RecordsOf(key) == RecordsFrom(key, 1)

\* the first headword the adapter yields whose case fold is cf
FirstWithFold(cf) ==
    KeyAt(Min({i \in 1..Len(mdx_items) : CaseFold(KeyAt(i)) = cf}))

HasFold(cf) == \E i \in 1..Len(mdx_items) : CaseFold(KeyAt(i)) = cf

\* a lookup of the installed dictionary got as far as the index
Served ==
    /\ lookup_result.kind # "none"
    /\ lookup_result.dict_id \in InstalledDicts
    /\ mdx_exists
    /\ Strip(lookup_result.word) # <<>>

\* the headword the trimmed query stands for: itself when stored, else the
\* first stored headword with its case fold
Query == Strip(lookup_result.word)

QueryKey ==
    IF Query \in StoredKeys THEN Query ELSE FirstWithFold(CaseFold(Query))

QueryMatches == Served /\ (Query \in StoredKeys \/ HasFold(CaseFold(Query)))

\* the record is a redirect marker, and this is its trimmed target
IsRedirect(v) == LinkStarts(v.text) # {}

TargetOf(v) == Strip(LinkGroup(v.text))

EntryRaws == {lookup_result.entries[n].raw : n \in 1..Len(lookup_result.entries)}

\* C4: a looked-up record that redirects to a target with two distinct raw
\* values, neither a redirect itself, yields two entries, both with the
\* target as headword: every raw value of the final headword is returned.
C4_RedirectReturnsAllValues ==
    \A v \in {mdx_items[n].v : n \in 1..Len(mdx_items)}, t \in StoredKeys :
        ( /\ QueryMatches
          /\ RecordsOf(QueryKey) = <<v>>
          /\ IsRedirect(v) /\ TargetOf(v) = t
          /\ Len(RecordsOf(t)) = 2
          /\ RecordsOf(t)[1] # RecordsOf(t)[2]
          /\ ~IsRedirect(RecordsOf(t)[1]) /\ ~IsRedirect(RecordsOf(t)[2]) )
        => /\ lookup_result.kind = "ok" /\ lookup_result.found
           /\ lookup_result.entries =
                 <<EntryResult(lookup_result.dict_id, t, RecordsOf(t)[1]),
                   EntryResult(lookup_result.dict_id, t, RecordsOf(t)[2])>>

\* the lookup of a chain h0 -> h1 -> ... of L redirect records
ChainLookup(L) ==
    /\ Served
    /\ Query = ChainHead(0)
    /\ Len(mdx_items) >= L
    /\ SubSeq(mdx_items, 1, L) = Chain(L)

\* C5: redirect resolution follows at most 10 hops; on a chain of more than
\* 10 redirects it returns, without error, the headword and the record
\* reached at the 10th hop.
C5_DepthCapReturnsTenthHop ==
    /\ \A n \in 1..Len(lookup_result.resolved) :
          lookup_result.resolved[n].hops <= 10
    /\ \A L \in 11..MaxChain :
          ChainLookup(L) =>
             /\ lookup_result.kind = "ok" /\ lookup_result.found
             /\ lookup_result.entries =
                   <<EntryResult(1, ChainHead(10), ChainLink(10).v)>>

C5_Witness ==
    /\ ChainLookup(12)
    /\ Len(lookup_result.resolved) = 1
    /\ lookup_result.resolved[1].why = "depth"
    /\ lookup_result.resolved[1].hops = 10

\* a record under the matched key whose marker names a target that has no
\* entries in the exact index
BrokenRecords ==
    {v \in {RecordsOf(QueryKey)[n] : n \in 1..Len(RecordsOf(QueryKey))} :
        IsRedirect(v) /\ TargetOf(v) # <<>> /\ TargetOf(v) \notin StoredKeys}

\* C6: when a matched record redirects to a target with no entries, lookup
\* returns found = true and a non-empty entry sequence that contains the
\* redirecting record.
C6_BrokenRedirectKeepsRecord ==
    (QueryMatches /\ BrokenRecords # {}) =>
        /\ lookup_result.kind = "ok" /\ lookup_result.found
        /\ lookup_result.entries # <<>>
        /\ BrokenRecords \subseteq EntryRaws

C6_Witness ==
    /\ QueryMatches /\ BrokenRecords # {}
    /\ lookup_result.found
    /\ \E n \in 1..Len(lookup_result.resolved) :
          lookup_result.resolved[n].why = "broken"

\* C7: resolution never raises; where it stops on an empty or an already
\* visited target it returns the pair current at that point (the starting
\* pair, or the last target moved to with its first record), and every hop
\* it made went to a target not visited before.
C7_ResolutionNeverRaises ==
    /\ lookup_result.kind # "exception"
    /\ \A n \in 1..Len(lookup_result.resolved) :
          LET r == lookup_result.resolved[n]
          IN  /\ ~r.raised
              /\ Cardinality(r.seen) >= r.hops
              /\ r.why \in {"cycle", "empty"} =>
                    /\ Len(r.vals) = 1
                    /\ IsRedirect(r.vals[1])
                    /\ r.why = "empty" => TargetOf(r.vals[1]) = <<>>
                    /\ r.why = "cycle" => TargetOf(r.vals[1]) \in r.seen
                    /\ IF r.hops = 0
                       THEN /\ r.head = lookup_result.lookup_key
                            /\ r.vals[1] = lookup_result.matched[n]
                       ELSE /\ r.head \in r.seen
                            /\ r.vals[1] = RecordsOf(r.head)[1]

C7_Witness ==
    /\ lookup_result.kind = "ok"
    /\ \E n \in 1..Len(lookup_result.resolved) :
          /\ lookup_result.resolved[n].why = "cycle"
          /\ lookup_result.resolved[n].hops = 2
    /\ \E n \in 1..Len(lookup_result.resolved) :
          lookup_result.resolved[n].why = "empty"

\* C8: a trimmed query that is no stored headword but shares its case fold
\* with one is found under the first stored headword with that case fold,
\* with that headword's records.
C8_CaseFoldFallback ==
    (Served /\ Query \notin StoredKeys /\ HasFold(CaseFold(Query))) =>
        /\ lookup_result.kind = "ok" /\ lookup_result.found
        /\ lookup_result.lookup_key = FirstWithFold(CaseFold(Query))
        /\ lookup_result.matched = RecordsOf(FirstWithFold(CaseFold(Query)))
        /\ lookup_result.entries # <<>>

C8_Witness ==
    /\ Served /\ Query \notin StoredKeys
    /\ lookup_result.found
    /\ lookup_result.lookup_key # Query
    /\ Cardinality({k \in StoredKeys : CaseFold(k) = CaseFold(Query)}) = 2

\* the index a lookup built
BuiltMaps == lookup_result.maps

IndexBuilt == Served

\* C9: in the built index every exact key's case fold maps to an exact key,
\* every value of the casefold map is an exact key, and each case fold maps
\* to the first headword seen with it.
C9_CasefoldMapsIntoExact ==
    IndexBuilt =>
        /\ \A k \in DOMAIN BuiltMaps.exact :
              /\ CaseFold(k) \in DOMAIN BuiltMaps.casefold_map
              /\ BuiltMaps.casefold_map[CaseFold(k)] \in DOMAIN BuiltMaps.exact
        /\ \A cf \in DOMAIN BuiltMaps.casefold_map :
              /\ BuiltMaps.casefold_map[cf] \in DOMAIN BuiltMaps.exact
              /\ HasFold(cf)
              /\ BuiltMaps.casefold_map[cf] = FirstWithFold(cf)

C9_Witness ==
    /\ IndexBuilt
    /\ \E k1, k2 \in DOMAIN BuiltMaps.exact :
          /\ k1 # k2 /\ CaseFold(k1) = CaseFold(k2)
          /\ BuiltMaps.casefold_map[CaseFold(k1)] = k1
          /\ k1 # CaseFold(k1)

RECURSIVE SumLens(_, _)
SumLens(m, keys) ==
    IF keys = {} THEN 0
    ELSE LET k == CHOOSE x \in keys : TRUE
         IN  Len(m[k]) + SumLens(m, keys \ {k})

\* C10: the build drops no record: the exact index holds as many raw
\* values as the adapter yielded pairs, and each headword's value sequence
\* is its records in iteration order, duplicates included.
C10_NoRecordDropped ==
    IndexBuilt =>
        /\ DOMAIN BuiltMaps.exact = StoredKeys
        /\ SumLens(BuiltMaps.exact, DOMAIN BuiltMaps.exact) = Len(mdx_items)
        /\ \A k \in StoredKeys : BuiltMaps.exact[k] = RecordsOf(k)

C10_Witness ==
    /\ IndexBuilt
    /\ Len(mdx_items) = 3
    /\ \E k \in DOMAIN BuiltMaps.exact :
          /\ Len(BuiltMaps.exact[k]) = 3
          /\ BuiltMaps.exact[k][1] = BuiltMaps.exact[k][3]
          /\ BuiltMaps.exact[k][1] # BuiltMaps.exact[k][2]

\* C19: a lookup that gets as far as the index and whose trimmed query is
\* neither a stored headword nor the case fold of one returns, without an
\* exception, found = false, the trimmed query as lookup_key and no entry.
C19_NoMatchReturnsNotFound ==
    (Served /\ ~QueryMatches) =>
        /\ lookup_result.kind = "ok"
        /\ ~lookup_result.found
        /\ lookup_result.lookup_key = Query
        /\ lookup_result.entries = <<>>

\* the file has records, and the query, which trimming shortens, matches
\* none of their headwords
C19_Witness ==
    /\ Served /\ ~QueryMatches
    /\ mdx_items # <<>>
    /\ Query # lookup_result.word
    /\ lookup_result.kind = "ok" /\ lookup_result.lookup_key = Query

\* C23: when the trimmed query is itself a stored headword, a lookup that
\* returns has the query as lookup_key and resolves its entries from the
\* records of that headword, whatever headword stands for the query's case
\* fold.
C23_ExactMatchFirst ==
    (Served /\ Query \in StoredKeys /\ lookup_result.kind = "ok") =>
        /\ lookup_result.found
        /\ lookup_result.lookup_key = Query
        /\ lookup_result.matched = RecordsOf(Query)
        /\ Len(lookup_result.resolved) = Len(RecordsOf(Query))

\* the query is a stored headword and another headword, first in the file,
\* stands for its case fold
C23_Witness ==
    /\ Served /\ Query \in StoredKeys
    /\ FirstWithFold(CaseFold(Query)) # Query
    /\ lookup_result.found /\ lookup_result.lookup_key = Query
    /\ RecordsOf(Query) # RecordsOf(FirstWithFold(CaseFold(Query)))

\* the (headword, raw bytes) pairs of the entries, and those the resolver
\* returned for the records under the matched key
EntryPairs ==
    {<<lookup_result.entries[n].headword, lookup_result.entries[n].raw>> :
        n \in 1..Len(lookup_result.entries)}

ResolvedPairs ==
    UNION {{<<lookup_result.resolved[n].head, lookup_result.resolved[n].vals[j]>> :
               j \in 1..Len(lookup_result.resolved[n].vals)} :
           n \in 1..Len(lookup_result.resolved)}

RECURSIVE FlatPairs(_)
FlatPairs(n) ==
    IF n > Len(lookup_result.resolved) THEN <<>>
    ELSE [j \in 1..Len(lookup_result.resolved[n].vals) |->
             <<lookup_result.resolved[n].head,
               lookup_result.resolved[n].vals[j]>>] \o FlatPairs(n + 1)

\* where the pair of the i-th entry first stands among them
FirstAt(i) ==
    Min({n \in 1..Len(FlatPairs(1)) :
            FlatPairs(1)[n] = <<lookup_result.entries[i].headword,
                                lookup_result.entries[i].raw>>})

\* C25: the n-th resolution of a result is that of the n-th record the
\* file holds under the matched key; the entries stand in the order in
\* which their pairs first come up, record after record and, within a
\* record, in the resolver's order; and the first entry is the first value
\* resolved from the first record.
C25_EntriesInSourceOrder ==
    (lookup_result.kind = "ok" /\ lookup_result.found) =>
        LET records == RecordsOf(lookup_result.lookup_key)
        IN  /\ Len(lookup_result.resolved) = Len(records)
            /\ \A n \in 1..Len(records) :
                  lookup_result.resolved[n] =
                      _resolve_mdx_link(BuiltMaps.exact,
                                        lookup_result.lookup_key, records[n])
            /\ \A i, j \in 1..Len(lookup_result.entries) :
                  i < j => FirstAt(i) < FirstAt(j)
            /\ FirstAt(1) = 1

\* three records under the matched key, the third resolving as the first
\* and the second otherwise: two entries, in the records' order
C25_Witness ==
    /\ lookup_result.kind = "ok"
    /\ Len(lookup_result.resolved) = 3
    /\ lookup_result.resolved[1] = lookup_result.resolved[3]
    /\ lookup_result.resolved[1].vals # lookup_result.resolved[2].vals
    /\ Len(lookup_result.entries) = 2
    /\ lookup_result.entries[2].raw = lookup_result.resolved[2].vals[1]

\* the record is stored in the file under the headword
Registered(head, v) ==
    \E i \in 1..Len(mdx_items) : KeyAt(i) = head /\ mdx_items[i].v = v

\* C20: every raw value the resolver returns is registered in the exact
\* index under the headword it returns with it; on a broken redirect that
\* is the record carrying the marker with the headword it is stored under,
\* not the name of the missing target.
C20_ResolvedPairsRegistered ==
    \A n \in 1..Len(lookup_result.resolved) :
        LET r == lookup_result.resolved[n]
        IN  /\ \A j \in 1..Len(r.vals) : Registered(r.head, r.vals[j])
            /\ r.why = "broken" => r.head \in StoredKeys

--------------------------------------------------------------------------
(* The rewrite specification: the installed dictionary holds one record    *)
(* under "ab" whose content is a short run of tags, each with one src or   *)
(* href attribute; lookups return it rewritten.                            *)

MaxTags == 2

AttrNames == {<<"s", "r", "c">>, <<"h", "r", "e", "f">>, <<"S", "r", "c">>}

UrlSchemes ==
    {S_HTTP, S_HTTPS, S_DATA, S_SOUND, S_ENTRY, S_BWORD, S_FILE,
     <<"E", "N", "T", "R", "Y", ":", "/", "/">>,
     <<"S", "o", "u", "n", "d", ":", "/", "/">>, <<" ">> \o S_HTTP,
     <<>>, <<"/">>, <<".", "/">>}

UrlTails ==
    {<<>>, <<"a">>, <<"/", "a", "\\", "b">>, <<"a", " ">>, <<"a", "\n", "b">>,
     <<"a", "?", "x">>, <<"a", " ", "b", "#", "x">>, <<".", "/", "a">>,
     <<"#", "x">>}

\* a tag: the attribute name, the quote character and the attribute value
TagDescs ==
    [attr : AttrNames, q : {"\"", "'"},
     url : {s \o t : s \in UrlSchemes, t \in UrlTails}]

\* the tags that longer contents are made of
ShortTagDescs ==
    [attr : {<<"s", "r", "c">>, <<"h", "r", "e", "f">>}, q : {"\""},
     url : {S_HTTPS \o <<"a">>, S_DATA \o <<"a">>,
            S_SOUND \o <<"/", "a", "\\", "b">>}]

TagSeqs ==
    {<<t>> : t \in TagDescs}
    \cup UNION {[1..m -> ShortTagDescs] : m \in 2..MaxTags}

Tag(attr, q, url) ==
    <<"<", "a", " ">> \o attr \o <<"=", q>> \o url \o <<q, ">">>

RECURSIVE Html(_)
Html(ts) ==
    IF ts = <<>> THEN <<>>
    ELSE Tag(ts[1].attr, ts[1].q, ts[1].url) \o Html(Tail(ts))

HtmlInputs ==
    {<<[k |-> Utf8(<<"a", "b">>), v |-> Utf8(Html(ts))]>> : ts \in TagSeqs}

RewriteInit ==
    /\ mdx_exists = TRUE
    /\ mdx_items \in HtmlInputs
    /\ lookup_result = NoLookup
    /\ FsIdle /\ CacheIdle

SpecRewrite == RewriteInit /\ [][LookupNext]_vars

--------------------------------------------------------------------------
(* Properties of the rewritten content.                                    *)

\* the lookup returned the record whose content is the tags ts
RewriteOf(ts) ==
    /\ Served /\ Query = <<"a", "b">>
    /\ mdx_items = <<[k |-> Utf8(<<"a", "b">>), v |-> Utf8(Html(ts))]>>

StaysUrl(url) ==
    StartsWith(url, S_HTTP) \/ StartsWith(url, S_HTTPS)
    \/ StartsWith(url, S_DATA)

\* sound://P: P
SoundPath(url) == SubSeq(url, Len(S_SOUND) + 1, Len(url))

HasLineBreak(s) == \E i \in 1..Len(s) : s[i] = "\n"

\* what the tags ts are to be rewritten to for dictionary dict_id; trim
\* says whether P loses its trailing whitespace
RECURSIVE Rewritten(_, _, _)
Rewritten(dict_id, ts, trim) ==
    IF ts = <<>> THEN <<>>
    ELSE (IF StaysUrl(ts[1].url) THEN Tag(ts[1].attr, ts[1].q, ts[1].url)
          ELSE Tag(ts[1].attr, ts[1].q,
                   AssetUrl(dict_id,
                            ReplaceBackslash(LStripSlash(
                                IF trim THEN RStrip(SoundPath(ts[1].url))
                                ELSE SoundPath(ts[1].url))))))
         \o Rewritten(dict_id, Tail(ts), trim)

\* C11 as stated: every value that starts with http://, https:// or data:
\* is returned unchanged, and every value sound://P becomes the asset route
\* of the dictionary followed by P without its leading slashes and with
\* forward slashes for backslashes
C11_RewriteKeepsAndMapsSound ==
    \A ts \in TagSeqs :
        (/\ RewriteOf(ts)
         /\ \A i \in 1..Len(ts) :
               StaysUrl(ts[i].url) \/ StartsWith(ts[i].url, S_SOUND))
        => /\ lookup_result.kind = "ok"
           /\ Len(lookup_result.entries) = 1
           /\ lookup_result.entries[1].html
                 = Rewritten(lookup_result.dict_id, ts, FALSE)

\* C11 amended: every value that starts with http://, https:// or data: is
\* returned unchanged, and every value sound://P without a line break
\* becomes the asset route of the dictionary followed by P without its
\* trailing whitespace and leading slashes and with forward slashes for
\* backslashes
C11_RewriteKeepsAndMapsTrimmedSound ==
    \A ts \in TagSeqs :
        (/\ RewriteOf(ts)
         /\ \A i \in 1..Len(ts) :
               \/ StaysUrl(ts[i].url)
               \/ StartsWith(ts[i].url, S_SOUND) /\ ~HasLineBreak(ts[i].url))
        => /\ lookup_result.kind = "ok"
           /\ Len(lookup_result.entries) = 1
           /\ lookup_result.entries[1].html
                 = Rewritten(lookup_result.dict_id, ts, TRUE)

\* a content with a kept https value and a sound value with a leading
\* slash and a backslash has been returned rewritten
C11_Witness ==
    /\ lookup_result.kind = "ok"
    /\ RewriteOf(<<[attr |-> <<"h", "r", "e", "f">>, q |-> "\"",
                    url |-> S_HTTPS \o <<"a">>],
                   [attr |-> <<"s", "r", "c">>, q |-> "\"",
                    url |-> S_SOUND \o <<"/", "a", "\\", "b">>]>>)
    /\ lookup_result.entries[1].html # lookup_result.entries[1].raw.text

\* the value has the scheme entry:// or bword://, in any letter case
IsEntryUrl(url) ==
    StartsWith(Lower(url), S_ENTRY) \/ StartsWith(Lower(url), S_BWORD)

\* entry://T or bword://T: T, trimmed
EntryTarget(url) == Strip(SubSeq(url, Len(S_ENTRY) + 1, Len(url)))

\* the word dictionary_entry looks up for a link: the value of its q
\* parameter, which ends at a "&" or a "#", decoded and trimmed
LinkQuery(link) ==
    Strip(unquote(Before(Before(AfterSub(link, <<"&", "q", "=">>), "&"), "#")))

\* what tags with entry links are to be rewritten to
RECURSIVE EntryRewritten(_, _)
EntryRewritten(dict_id, ts) ==
    IF ts = <<>> THEN <<>>
    ELSE Tag(ts[1].attr, ts[1].q, EntryUrl(dict_id, EntryTarget(ts[1].url)))
         \o EntryRewritten(dict_id, Tail(ts))

IsLocalRef(url) ==
    StartsWith(Strip(url), S_FILE) \/ FindSub(url, <<":">>) = 0

\* the value is empty or a bare fragment
EmptyOrFragment(url) == Strip(url) = <<>> \/ Head(Strip(url)) = "#"

\* what tags with local references are to be rewritten to
RECURSIVE LocalRewritten(_, _)
LocalRewritten(dict_id, ts) ==
    IF ts = <<>> THEN <<>>
    ELSE Tag(ts[1].attr, ts[1].q,
             IF EmptyOrFragment(ts[1].url) THEN ts[1].url
             ELSE AssetUrl(dict_id, UrlNorm(Strip(ts[1].url))))
         \o LocalRewritten(dict_id, Tail(ts))

\* C29: a value file://P or a bare path P becomes the asset route of the
\* dictionary followed by P without scheme, query, fragment, leading "./"
\* and leading slashes; an empty value and a bare fragment stay as they
\* are; the path after the route never starts with "/" or "./".
C29_LocalRefsRewritten ==
    \A ts \in TagSeqs :
        (RewriteOf(ts) /\ \A i \in 1..Len(ts) : IsLocalRef(ts[i].url))
        => /\ lookup_result.kind = "ok"
           /\ Len(lookup_result.entries) = 1
           /\ lookup_result.entries[1].html
                 = LocalRewritten(lookup_result.dict_id, ts)
           /\ \A i \in 1..Len(ts) :
                 ~EmptyOrFragment(ts[i].url)
                 => /\ ~StartsWith(UrlNorm(Strip(ts[i].url)), <<"/">>)
                    /\ ~StartsWith(UrlNorm(Strip(ts[i].url)), <<".", "/">>)

\* C30: rewrite returns a text for every content, whatever the letter case
\* of the scheme names in it: a lookup that found the record returns it
\* rewritten and never ends in an exception.
C30_RewriteTotal ==
    \A ts \in TagSeqs :
        RewriteOf(ts)
        => /\ lookup_result.kind = "ok" /\ lookup_result.found
           /\ Len(lookup_result.entries) = 1
           /\ lookup_result.entries[1].rewritten

--------------------------------------------------------------------------
(* Worker threads: the lookup handlers are plain functions, which the      *)
(* framework runs on a thread pool.                                        *)

\* the archive of the i-th dictionary of the cache specification; the
\* headword file of dictionary 2 is one the decoding adapter rejects
FixtureZip(i) ==
    [valid |-> TRUE,
     members |-> <<[name |-> F_MDX,
                    data |-> IF i = 2 THEN "corrupt" ELSE "mdx",
                    items |-> <<[k |-> Utf8(<<"a", "b">>),
                                 v |-> Utf8(<<"x">> \o Dec(i))]>>]>>]

RECURSIVE InstallFixtures(_)
InstallFixtures(n) ==
    IF n = 0 THEN [disk |-> <<>>, rows |-> <<>>]
    ELSE LET before == InstallFixtures(n - 1)
         IN  install_from_zip_bytes(<<"d">> \o Dec(n), FixtureZip(n),
                                    0, before.disk, before.rows)

\* the file MDX(mdx_path) opens; a file that is gone is as unreadable to the
\* adapter as one it cannot decode
MdxFile(files, path) ==
    IF FileAt(files, path) = <<>>
    THEN [path |-> path, data |-> "corrupt", items |-> <<>>]
    ELSE FileAt(files, path)[1]

\* str(settings.DICT_ROOT / d.folder / d.mdx_filename)
MdxPath(d) == DICT_ROOT \o <<"/">> \o d.folder \o <<"/">> \o d.mdx_filename

Init ==
    /\ LookupIdle
    /\ clock = 0
    /\ disk = InstallFixtures(NumDicts).disk
    /\ dictionaries = InstallFixtures(NumDicts).rows
    /\ install_result = NoInstall
    /\ asset_result = NoAsset
    /\ CacheIdle

\* the requests a thread makes in the specification at hand: MaxRequests,
\* or MaxCacheRequests where one thread asks for many dictionaries
RequestLimit ==
    IF Len(dictionaries) <= NumDicts THEN MaxRequests ELSE MaxCacheRequests

\* A thread runs lookup up to the call of the wrapped function: the checks
\* of lines 110-122, then the two cache lookups.  A hit in either cache
\* ends the call at once.
Request(t, dict_id, word) ==
    /\ threads[t].pc # "building"
    /\ threads[t].n < RequestLimit
    /\ LET found == GetById(dictionaries, dict_id)
           path == IF found = <<>> THEN <<>> ELSE MdxPath(found[1])
           msg == LookupPrecheck(word, found # <<>>,
                                 found # <<>> /\ FileAt(disk, path) # <<>>)
           key == <<dict_id, path>>
           started == [threads EXCEPT ![t].dict_id = dict_id,
                                      ![t].word = word,
                                      ![t].key = key,
                                      ![t].n = @ + 1]
           outer == LruIndex(mdx_cache, key)
           inner == LruIndex(mdx_cache_inner, key)
       IN  IF msg # ""
           THEN /\ threads' = [started EXCEPT ![t].pc = "done",
                                  ![t].result = LookupError(dict_id, word, msg)]
                /\ UNCHANGED <<mdx_cache, mdx_cache_inner, builds, recent_keys>>
           ELSE IF outer # 0
           THEN /\ threads' = [started EXCEPT ![t].pc = "done",
                                  ![t].result =
                                      LookupIn(dict_id, word,
                                               mdx_cache[outer].val)]
                /\ mdx_cache' = LruTouch(mdx_cache, outer)
                /\ recent_keys' = MostRecent(recent_keys, MdxCacheSize, key)
                /\ UNCHANGED <<mdx_cache_inner, builds>>
           ELSE IF inner # 0
           THEN /\ threads' = [started EXCEPT ![t].pc = "done",
                                  ![t].result =
                                      LookupIn(dict_id, word,
                                               mdx_cache_inner[inner].val)]
                /\ mdx_cache_inner' = LruTouch(mdx_cache_inner, inner)
                /\ mdx_cache' = LruStore(mdx_cache, key,
                                         mdx_cache_inner[inner].val)
                /\ recent_keys' = MostRecent(recent_keys, MdxCacheSize, key)
                /\ UNCHANGED builds
           ELSE /\ threads' = [started EXCEPT ![t].pc = "building"]
                /\ builds' = [builds EXCEPT ![dict_id] = @ + 1]
                /\ recent_keys' = MostRecent(recent_keys, MdxCacheSize, key)
                /\ UNCHANGED <<mdx_cache, mdx_cache_inner>>
    /\ UNCHANGED <<mdd_cache, lookup_vars, fs_vars>>

\* The wrapped function returns: the maps are stored in the inner cache and
\* then in the outer one, and lookup goes on with them.  When the adapter
\* raises, nothing is stored and the exception leaves lookup.
BuildDone(t) ==
    /\ threads[t].pc = "building"
    /\ LET key == threads[t].key
           built == _get_mdx_maps_cached(MdxFile(disk, key[2]))
       IN  /\ threads' =
                  [threads EXCEPT ![t].pc = "done",
                      ![t].result =
                          IF built.raised
                          THEN LookupExceptionResult(threads[t].dict_id,
                                                     threads[t].word, NoMaps)
                          ELSE LookupIn(threads[t].dict_id, threads[t].word,
                                        built.maps)]
           /\ mdx_cache_inner' = LruStoreResult(mdx_cache_inner, key, built)
           /\ mdx_cache' = LruStoreResult(mdx_cache, key, built)
    /\ UNCHANGED <<builds, recent_keys, mdd_cache, lookup_vars, fs_vars>>

Next ==
    \/ \E t \in Threads, dict_id \in 1..(NumDicts + 1),
          word \in {<<"a", "b">>, <<" ">>} : Request(t, dict_id, word)
    \/ \E t \in Threads : BuildDone(t)

Spec == Init /\ [][Next]_vars

--------------------------------------------------------------------------
(* The delete specification: while the threads serve lookups, an           *)
(* administrator deletes dictionaries.  delete_dictionary removes the      *)
(* folder and then the record; lookups run between the two.                *)

\* settings.DICT_ROOT / d.folder
DictDir(d) == DICT_ROOT \o <<"/">> \o d.folder

\* delete_dictionary up to shutil.rmtree: the folder goes
DeleteFolder(dict_id) ==
    /\ GetById(dictionaries, dict_id) # <<>>
    /\ LET dir == DictDir(GetById(dictionaries, dict_id)[1])
       IN  /\ FilesUnder(disk, dir) # <<>>
           /\ disk' = RmTree(disk, dir)
    /\ UNCHANGED <<clock, dictionaries, install_result, asset_result>>
    /\ UNCHANGED <<lookup_vars, cache_vars>>

\* delete_dictionary from dict_repo.delete: the record goes
DeleteRecord(dict_id) ==
    /\ GetById(dictionaries, dict_id) # <<>>
    /\ FilesUnder(disk, DictDir(GetById(dictionaries, dict_id)[1])) = <<>>
    /\ dictionaries' = SelectSeq(dictionaries, LAMBDA d : d.id # dict_id)
    /\ UNCHANGED <<clock, disk, install_result, asset_result>>
    /\ UNCHANGED <<lookup_vars, cache_vars>>

DeleteNext ==
    \/ \E t \in Threads, dict_id \in 1..(NumDicts + 1),
          word \in {<<"a", "b">>, <<" ">>} : Request(t, dict_id, word)
    \/ \E t \in Threads : BuildDone(t)
    \/ \E dict_id \in 1..NumDicts : DeleteFolder(dict_id)
    \/ \E dict_id \in 1..NumDicts : DeleteRecord(dict_id)

SpecDelete == Init /\ [][DeleteNext]_vars

--------------------------------------------------------------------------
(* Properties of the worker threads.                                       *)

\* C1: concurrent first lookups of one uncached key build its index exactly
\* once: a dictionary whose file the adapter can read, and whose index no
\* cache has dropped, is never built a second time.
C1_SingleBuildPerKey ==
    \A i \in 1..NumDicts :
        FileAt(disk, MdxPath(dictionaries[i]))[1].data # "corrupt"
            => builds[i] <= 1

--------------------------------------------------------------------------
(* The cache specification: one thread looks words up in CacheDicts        *)
(* dictionaries, one request after the other.  A dictionary is first asked *)
(* for when all dictionaries before it have been asked for, and only a few *)
(* requests ask again for a dictionary asked for before.                   *)

CacheInit ==
    /\ LookupIdle
    /\ clock = 0
    /\ disk = InstallFixtures(CacheDicts).disk
    /\ dictionaries = InstallFixtures(CacheDicts).rows
    /\ install_result = NoInstall
    /\ asset_result = NoAsset
    /\ threads = [t \in Threads |-> ThreadIdle]
    /\ mdx_cache = <<>>
    /\ mdx_cache_inner = <<>>
    /\ builds = [i \in 1..CacheDicts |-> 0]
    /\ recent_keys = <<>>
    /\ mdd_cache = <<>>

\* the dictionaries whose headword file the adapter reads
Readable ==
    {i \in 1..Len(dictionaries) :
        FileAt(disk, MdxPath(dictionaries[i]))[1].data # "corrupt"}

\* at most MaxRepeats requests ask for a dictionary asked for before
CacheRequest(dict_id) ==
    /\ \A j \in Readable : j < dict_id => builds[j] > 0
    /\ builds[dict_id] > 0
          => threads[1].n - Cardinality({j \in Readable : builds[j] > 0})
                < MaxRepeats
    /\ Request(1, dict_id, <<"a", "b">>)

CacheNext ==
    \/ \E dict_id \in Readable : CacheRequest(dict_id)
    \/ BuildDone(1)

SpecCache == CacheInit /\ [][CacheNext]_vars

--------------------------------------------------------------------------
(* Properties of the caches.                                               *)

\* the adapter cannot decode the headword file of the key
Corrupt(key) == FileAt(disk, key[2])[1].data = "corrupt"

CachedEntries ==
    {mdx_cache[i] : i \in 1..Len(mdx_cache)}
    \cup {mdx_cache_inner[i] : i \in 1..Len(mdx_cache_inner)}

\* thread t begins a lookup in this step
Begins(t) == threads[t].pc # "building" /\ threads'[t].n = threads[t].n + 1

\* the message of the DictLookupError the lookup ends with, "" when it
\* does not end with one
Failure(result) == IF result.kind = "error" THEN result.msg ELSE ""

\* the record of the dictionary is gone, or never was
NoRecord(dict_id) == GetById(dictionaries, dict_id) = <<>>

\* the dictionary has a record, and its headword file is not on disk
NoMdxFile(dict_id) ==
    /\ ~NoRecord(dict_id)
    /\ FileAt(disk, MdxPath(GetById(dictionaries, dict_id)[1])) = <<>>

\* C18: a lookup whose trimmed query is empty fails with the empty-query
\* error, whatever the dictionary id; else a lookup of an id without a
\* record fails with the dictionary-missing error; else a lookup of a
\* dictionary whose headword file is not on disk fails with the
\* source-file-missing error.  The three errors differ, no other lookup
\* ends with one of them, and a lookup that fails so starts no build and
\* leaves the caches as they were.
C18_PrecheckFailures ==
    [][\A t \in Threads :
          Begins(t) =>
             LET word == threads'[t].word
                 dict_id == threads'[t].dict_id
                 failure == IF threads'[t].pc = "done"
                            THEN Failure(threads'[t].result) ELSE ""
             IN  /\ Strip(word) = <<>> => failure = "Please enter a word."
                 /\ (Strip(word) # <<>> /\ NoRecord(dict_id))
                       => failure = "Dictionary not found."
                 /\ (Strip(word) # <<>> /\ NoMdxFile(dict_id))
                       => failure = "MDX file missing on server."
                 /\ (Strip(word) # <<>> /\ ~NoRecord(dict_id)
                       /\ ~NoMdxFile(dict_id)) => failure = ""
                 /\ failure # ""
                       => /\ builds' = builds
                          /\ mdx_cache' = mdx_cache
                          /\ mdx_cache_inner' = mdx_cache_inner
                          /\ mdd_cache' = mdd_cache]_vars

\* with an index cached, one thread's lookup of an unknown dictionary has
\* failed on its empty query and another's on the headword file, which a
\* delete has removed while the record is still there
C18_Witness ==
    /\ mdx_cache # <<>>
    /\ \E t \in Threads :
          /\ threads[t].pc = "done" /\ threads[t].dict_id = NumDicts + 1
          /\ Failure(threads[t].result) = "Please enter a word."
    /\ \E t \in Threads :
          /\ threads[t].pc = "done" /\ NoMdxFile(threads[t].dict_id)
          /\ Failure(threads[t].result) = "MDX file missing on server."

\* C16: a build that fails stores nothing and changes no cache, and its
\* caller gets the exception; a request for a key whose builds fail always
\* runs the build again; and every index in a cache is what a successful
\* build of its key gives from all the records of the file.
C16_FailedBuildNotCached ==
    /\ [](\A e \in CachedEntries :
             /\ ~Corrupt(e.key)
             /\ e.val = _get_mdx_maps(FileAt(disk, e.key[2])[1].items))
    /\ [][\A t \in Threads :
             /\ (/\ threads[t].pc = "building" /\ threads'[t].pc = "done"
                  /\ Corrupt(threads[t].key))
                => /\ mdx_cache' = mdx_cache
                   /\ mdx_cache_inner' = mdx_cache_inner
                   /\ threads'[t].result.kind = "exception"
             /\ (/\ threads[t].pc # "building"
                  /\ threads'[t].n = threads[t].n + 1
                  /\ threads'[t].key[2] # <<>>
                  /\ Strip(threads'[t].word) # <<>>
                  /\ Corrupt(threads'[t].key))
                => /\ threads'[t].pc = "building"
                   /\ builds'[threads'[t].dict_id]
                         = builds[threads'[t].dict_id] + 1]_vars

\* a build of dictionary 2 has failed for the second time while the index
\* of dictionary 1 is cached
C16_Witness ==
    /\ builds[2] = 2
    /\ \E t \in Threads :
          /\ threads[t].pc = "done" /\ threads[t].dict_id = 2
          /\ threads[t].result.kind = "exception"
    /\ \E e \in CachedEntries : e.key[1] = 1

\* C17: the caches never hold more than 8 distinct headword indexes nor
\* more than 32 asset indexes.
C17_CacheCapacity ==
    /\ Cardinality({e.key : e \in CachedEntries}) <= 8
    /\ Len(mdd_cache) <= 32

\* thread t begins, in this step, a lookup that asks for the index
AsksIndex(t) ==
    /\ Begins(t)
    /\ threads'[t].pc = "done" => Failure(threads'[t].result) = ""

\* C21: a request for the index runs the build exactly when its
\* (dictionary id, path) key is not among the 8 distinct keys asked for
\* last: the cache behaves as one least-recently-used cache of capacity 8.
C21_BuildIffNotRecent ==
    [][\A t \in Threads :
          AsksIndex(t) =>
             (threads'[t].pc = "building"
                <=> \A n \in 1..Len(recent_keys) :
                       recent_keys[n] # threads'[t].key)]_vars

==========================================================================
